---- MODULE Spec2Model ----
(***************************************************************************)
(* A model of the Arpeggio PEG parser interpreter (arpeggio/__init__.py).  *)
(*                                                                         *)
(* The recursive descent of ParsingExpression.parse / Match.parse is       *)
(* modelled as a machine with an explicit call stack: one frame per        *)
(* active X.parse call, one action per step of the code between two        *)
(* calls.  Strings are sequences of one-character strings.  Parse trees    *)
(* are records of one shape (t = "T" Terminal, "N" NonTerminal, "L" a      *)
(* plain python list, "None").  NoMatch objects live in a heap (nms) so    *)
(* that the references kept in memo tables and in parser.nm alias.         *)
(* Parser.getASG and Parser.context are actions of the same machine; the   *)
(* grammar builder ParserPython._from_python is a machine of its own       *)
(* (SpecBuild) over a heap of expression objects.                          *)
(***************************************************************************)
EXTENDS Integers, Sequences, FiniteSets, TLC

\* ------------------------------------------------------------------ bounds

\* Longest input of a parser that is used for one parse() call.
MaxLen == 3
\* Longest input of a parser that is used for a sequence of parse() calls.
MaxLenSeq == 2
\* Number of parse() calls made on such a parser.
MaxParses == 2
\* Longest input of the parser that is used to look at long contexts.
MaxLenContext == 12
\* Largest length given to context().
MaxMark == 2
\* Cap on the number of results a repetition loop collects (the loops of
\* ZeroOrMore / OneOrMore are unbounded in the code).
MaxRep == 5

\* ------------------------------------------------------------ small helpers

Max(a, b) == IF a >= b THEN a ELSE b
Min(a, b) == IF a <= b THEN a ELSE b

\* python s[a:b] for 0 <= a <= b
Slice(s, a, b) == SubSeq(s, a + 1, Min(b, Len(s)))

\* str.lower() on the letters the inputs are drawn from
LowerChar(c) == IF c = "A" THEN "a" ELSE IF c = "B" THEN "b" ELSE c
Lower(s) == [k \in 1..Len(s) |-> LowerChar(s[k])]

\* DEFAULT_WS = '\t\n\r '
DEFAULT_WS == {"\t", "\n", "\r", " "}

\* ------------------------------------------------------------- parse trees

None == [t |-> "None", rule |-> "", pos |-> 0, val |-> <<>>, sup |-> FALSE,
         kids |-> <<>>, com |-> <<>>]

List(items) == [None EXCEPT !.t = "L", !.kids = items]

Terminal(rule, pos, value, suppress) ==
    [None EXCEPT !.t = "T", !.rule = rule, !.pos = pos, !.val = value,
                 !.sup = suppress]

RECURSIVE flatten(_)
\* flatten: python lists are spliced, NonTerminal (a list subclass that is
\* excluded by type) and everything without __iter__ are kept.
flatten(items) ==
    IF items = <<>> THEN <<>>
    ELSE LET e == Head(items) IN
         (IF e.t = "L" THEN flatten(e.kids) ELSE <<e>>) \o flatten(Tail(items))

\* NonTerminal.__init__: self.extend(flatten([nodes]))
NonTerminal(rule, pos, nodes) ==
    [None EXCEPT !.t = "N", !.rule = rule, !.pos = pos,
                 !.kids = flatten(<<nodes>>)]

\* python truth value of a result: None and empty lists (NonTerminal is a
\* list) are false, a Terminal defines neither __bool__ nor __len__.
Truthy(r) ==
    CASE r.t = "None" -> FALSE
      [] r.t = "T"    -> TRUE
      [] OTHER        -> r.kids # <<>>

RECURSIVE JoinBar(_)
RECURSIVE StrOf(_)
\* str(x): Terminal.__str__ gives the value, NonTerminal.__str__ joins the
\* children with " | ", str(None) is "None".
StrOf(r) ==
    CASE r.t = "T"    -> r.val
      [] r.t = "None" -> <<"N", "o", "n", "e">>
      [] OTHER        -> JoinBar(r.kids)
JoinBar(items) ==
    IF items = <<>> THEN <<>>
    ELSE IF Len(items) = 1 THEN StrOf(items[1])
    ELSE StrOf(items[1]) \o <<" ", "|", " ">> \o JoinBar(Tail(items))

RECURSIVE JoinStr(_)
\* "".join([str(result) for result in results])
JoinStr(items) ==
    IF items = <<>> THEN <<>> ELSE StrOf(Head(items)) \o JoinStr(Tail(items))

\* ---------------------------------------------------------- parser models

\* A node of the parser model (ParsingExpression.__init__, Match.__init__,
\* StrMatch.__init__, RegExMatch.__init__ and the rule / root stamps of
\* _from_python).  lit is to_match as python prints it; name is the node's
\* name property.  A RegExMatch is a character class repeated (cls, min).
PE(kind, nodes, rule, root, name) ==
    [kind |-> kind, nodes |-> nodes, rule |-> rule, root |-> root,
     to_match |-> <<>>, ignore_case |-> FALSE, cls |-> {}, min |-> 0,
     lit |-> "", name |-> name]

StrM(chars, lit, ic) ==
    [PE("StrMatch", <<>>, "", FALSE, "StrMatch(" \o lit \o ")")
        EXCEPT !.to_match = chars, !.lit = lit, !.ignore_case = ic]

RegExM(cls, min, lit, rule, root) ==
    [PE("RegExMatch", <<>>, rule, root,
        IF root THEN rule \o "=RegExMatch(" \o lit \o ")"
                ELSE "RegExMatch(" \o lit \o ")")
        EXCEPT !.cls = cls, !.min = min, !.lit = lit]

\* The parser models of the grammars below, as _from_python builds them.
\* Primitive nodes hold no matching-time state and are written once.
\*
\*   ab        def S(): return 'a', 'b'
\*   comment   def comment(): return ('#',)
\*   choice    def S(): return ['a', 'b']
\*   EOF       def EOF(): return EndOfFile()
\*   plus_eof  def S(): return OneOrMore('a')
\*             def G(): return S, EOF
\*   star_opt  def S(): return ZeroOrMore(Optional('a'))
\*   plus_rx   def S(): return OneOrMore(RegExMatch('b*'))
\*   expr      def T(): return RegExMatch('1+')
\*             def E(): return T, ZeroOrMore(('+', T))
\*   ident     def ident(): return Combine('a', ZeroOrMore('b'))
\*             def S(): return ident, EOF
\*   lexshare  def X(): return 'a', 'b'
\*             def S(): return [Combine(X), X]
\*   lexshare2 def S(): return [(X, 'c'), Combine(X)]
\*   comb_opt  def S(): return Combine(Optional('b')), 'a'
\*   comb_ic   def S(): return Combine(StrMatch('a', ignore_case=True))
\*   preds     def S(): return And('a'), Not(('a', 'b')), RegExMatch('[ab]+')
\*   empty     def S(): return [('a', 'b'), Empty()]
\*   plus_b    def S(): return OneOrMore('b')
\*   inner     def S(): return [X, 'c']
\*   twice     def S(): return [(X, 'c'), (X, 'b')]
\*   opt_eof   def S(): return Optional('a'), EOF
Model ==
    << StrM(<<"a">>, "a", FALSE),                                   \* 1
       StrM(<<"b">>, "b", FALSE),                                   \* 2
       PE("Sequence", <<1, 2>>, "S", TRUE, "S(Sequence)"),          \* 3
       StrM(<<"#">>, "#", FALSE),                                   \* 4
       PE("Sequence", <<4>>, "comment", TRUE, "comment(Sequence)"), \* 5
       PE("OrderedChoice", <<1, 2>>, "S", TRUE, "S(OrderedChoice)"),\* 6
       PE("EndOfFile", <<>>, "EOF", TRUE, "EOF"),                   \* 7
       PE("OneOrMore", <<1>>, "S", TRUE, "S(OneOrMore)"),           \* 8
       PE("Sequence", <<8, 7>>, "G", TRUE, "G(Sequence)"),          \* 9
       PE("Optional", <<1>>, "", FALSE, "Optional"),                \* 10
       PE("ZeroOrMore", <<10>>, "S", TRUE, "S(ZeroOrMore)"),        \* 11
       RegExM({"b"}, 0, "b*", "", FALSE),                           \* 12
       PE("OneOrMore", <<12>>, "S", TRUE, "S(OneOrMore)"),          \* 13
       RegExM({"1"}, 1, "1+", "T", TRUE),                           \* 14
       StrM(<<"+">>, "+", FALSE),                                   \* 15
       PE("Sequence", <<15, 14>>, "", FALSE, "Sequence"),           \* 16
       PE("ZeroOrMore", <<16>>, "", FALSE, "ZeroOrMore"),           \* 17
       PE("Sequence", <<14, 17>>, "E", TRUE, "E(Sequence)"),        \* 18
       PE("ZeroOrMore", <<2>>, "", FALSE, "ZeroOrMore"),            \* 19
       PE("Sequence", <<1, 19>>, "", FALSE, "Sequence"),            \* 20
       PE("Combine", <<20>>, "ident", TRUE, "ident(Combine)"),      \* 21
       PE("Sequence", <<21, 7>>, "S", TRUE, "S(Sequence)"),         \* 22
       PE("Sequence", <<1, 2>>, "X", TRUE, "X(Sequence)"),          \* 23
       PE("Combine", <<23>>, "", FALSE, "Combine"),                 \* 24
       PE("OrderedChoice", <<24, 23>>, "S", TRUE, "S(OrderedChoice)"), \* 25
       StrM(<<"c">>, "c", FALSE),                                   \* 26
       PE("Sequence", <<23, 26>>, "", FALSE, "Sequence"),           \* 27
       PE("OrderedChoice", <<27, 24>>, "S", TRUE, "S(OrderedChoice)"), \* 28
       PE("Optional", <<2>>, "", FALSE, "Optional"),                \* 29
       PE("Combine", <<29>>, "", FALSE, "Combine"),                 \* 30
       PE("Sequence", <<30, 1>>, "S", TRUE, "S(Sequence)"),         \* 31
       StrM(<<"a">>, "a", TRUE),                                    \* 32
       PE("Combine", <<32>>, "S", TRUE, "S(Combine)"),              \* 33
       PE("And", <<1>>, "", FALSE, "And"),                          \* 34
       PE("Sequence", <<1, 2>>, "", FALSE, "Sequence"),             \* 35
       PE("Not", <<35>>, "", FALSE, "Not"),                         \* 36
       RegExM({"a", "b"}, 1, "[ab]+", "", FALSE),                   \* 37
       PE("Sequence", <<34, 36, 37>>, "S", TRUE, "S(Sequence)"),    \* 38
       PE("Sequence", <<>>, "", FALSE, "Sequence"),                 \* 39
       PE("Empty", <<39>>, "", FALSE, "Empty"),                     \* 40
       PE("OrderedChoice", <<35, 40>>, "S", TRUE, "S(OrderedChoice)"), \* 41
       PE("OneOrMore", <<2>>, "S", TRUE, "S(OneOrMore)"),           \* 42
       PE("OrderedChoice", <<23, 26>>, "S", TRUE, "S(OrderedChoice)"), \* 43
       PE("Sequence", <<23, 2>>, "", FALSE, "Sequence"),            \* 44
       PE("OrderedChoice", <<27, 44>>, "S", TRUE, "S(OrderedChoice)"), \* 45
       PE("Sequence", <<10, 7>>, "S", TRUE, "S(Sequence)"),         \* 46
       \* def S(): return Combine(Combine(X))
       PE("Combine", <<24>>, "S", TRUE, "S(Combine)"),              \* 47
       \* def A(): return [('a', A), 'b']
       PE("Sequence", <<1, 49>>, "", FALSE, "Sequence"),            \* 48
       PE("OrderedChoice", <<48, 2>>, "A", TRUE, "A(OrderedChoice)") \* 49
    >>

NodeIds == 1..Len(Model)

\* class Match and its subclasses
IsMatch(n) == Model[n].kind \in {"StrMatch", "RegExMatch", "EndOfFile"}

\* A parser as ParserPython.__init__ leaves it: the model of the language,
\* the comments model (0: none), the options, and the inputs it is given
\* here (alpha: their characters, maxlen: their length, parses: how many
\* parse() calls are made on it).
Parser(root, comments, skipws, reduce, alpha, maxlen, parses) ==
    [parser_model |-> root, comments_model |-> comments, skipws |-> skipws,
     reduce_tree |-> reduce, alpha |-> alpha, maxlen |-> maxlen,
     parses |-> parses]

Setups ==
    { Parser(3, 0, TRUE, FALSE, {"a", "b", " "}, MaxLen, 1),
      Parser(3, 5, TRUE, FALSE, {"a", "b", "#", " "}, MaxLen, 1),
      Parser(3, 5, FALSE, TRUE, {"a", "b", "#", " "}, MaxLen, 1),
      Parser(6, 5, TRUE, FALSE, {"a", "b", "#"}, MaxLen, 1),
      Parser(6, 0, TRUE, TRUE, {"a", "b", "c"}, MaxLen, 1),
      Parser(9, 0, TRUE, FALSE, {"a", "b"}, MaxLen, 1),
      Parser(11, 0, TRUE, FALSE, {"a", "b"}, MaxLen, 1),
      Parser(13, 0, TRUE, FALSE, {"a", "b"}, MaxLen, 1),
      Parser(18, 0, TRUE, FALSE, {"1", "+", " "}, MaxLen, 1),
      Parser(18, 0, TRUE, TRUE, {"1", "+", " "}, MaxLen, 1),
      Parser(22, 0, TRUE, FALSE, {"a", "b", " "}, MaxLen, 1),
      Parser(22, 5, TRUE, FALSE, {"a", "b", "#"}, MaxLen, 1),
      Parser(25, 0, TRUE, FALSE, {"a", "b", " "}, MaxLen, 1),
      Parser(28, 0, TRUE, FALSE, {"a", "b", "c", " "}, MaxLen, 1),
      Parser(31, 0, TRUE, FALSE, {"a", "b"}, MaxLen, 1),
      Parser(33, 0, TRUE, FALSE, {"a", "A"}, MaxLen, 1),
      Parser(38, 0, TRUE, FALSE, {"a", "b", " "}, MaxLen, 1),
      Parser(41, 0, TRUE, FALSE, {"a", "b"}, MaxLen, 1),
      Parser(43, 0, TRUE, TRUE, {"a", "b", "c"}, MaxLen, 1),
      Parser(42, 5, TRUE, FALSE, {"b", "#"}, MaxLenSeq, MaxParses),
      Parser(49, 0, TRUE, FALSE, {"a", "b"}, MaxLenSeq, MaxParses),
      Parser(3, 0, TRUE, FALSE, {"a"}, MaxLenContext, 1),
      Parser(6, 0, TRUE, FALSE, {"a", "\n"}, MaxLen, 1),
      Parser(45, 0, TRUE, FALSE, {"a", "b", "c", " "}, MaxLen, 1),
      Parser(46, 5, TRUE, FALSE, {"a", "#", " "}, MaxLen, 1),
      Parser(47, 0, TRUE, FALSE, {"a", "b", " "}, MaxLen, 1) }

\* The inputs given to parser p
Inputs(p) == UNION { [1..k -> p.alpha] : k \in 0..p.maxlen }

\* ------------------------------------------------------------------ state

VARIABLES
    parser,            \* the parser object's options and models (fixed)
    input,             \* parser.input
    position,          \* parser.position
    line_ends,         \* parser.line_ends
    nms,               \* heap of NoMatch objects: rule, position, _up
    nm,                \* parser.nm: index into nms, 0 for None
    in_lex_rule,       \* parser._in_lex_rule
    in_parse_comment,  \* parser._in_parse_comment
    last_pexpression,  \* parser._last_pexpression: a node, 0 for None
    cache,             \* result_cache of every node: <<node, pos>> -> entry
    parse_tree,        \* parser.parse_tree
    stack,             \* the active X.parse calls, innermost last
    ret,               \* what the call that ended last returned or raised
    phase,             \* "init", "parsing", "done" (returned), "failed" (raised)
    nparse,            \* parse() calls made so far
    maxfail,           \* (history) furthest failure of a primitive of the
                       \* language model in this parse() call, -1: none
    call,              \* (history) the getASG / context call made last on
                       \* the parser since its last parse() call
    build,             \* the locals of a _from_python call: the grammar, the
                       \* expression objects made, __rule_cache,
                       \* __for_resolving, __cross_refs
    evals              \* (history) the calls of parse on non-primitive
                       \* nodes that have ended in this parse() call, in
                       \* the order in which they ended

vars == <<parser, input, position, line_ends, nms, nm, in_lex_rule,
          in_parse_comment, last_pexpression, cache, evals, parse_tree, stack,
          ret,
          phase, nparse, maxfail, call, build>>

\* unchanged by every step inside a parse() call
ctl == <<parser, input, line_ends, parse_tree, phase, nparse, call, build>>

\* A frame of X.parse.  pc: "call" (parse entered, nothing done), "body"
\* (inside _parse), "comments" (Match.parse matching comments).  c_pos and
\* last are the locals of parse; b_pos, i, results, old_lex, first those of
\* _parse.  entry, lex, log and noadv are history: the position and lexical
\* flag at the call, the alternatives an OrderedChoice has tried, and whether
\* a repetition went on after its child matched without advancing.
Frame(n, pos, lex) ==
    [node |-> n, pc |-> "call", entry |-> pos, lex |-> lex, c_pos |-> 0,
     last |-> 0, b_pos |-> 0, i |-> 0, results |-> <<>>, old_lex |-> FALSE,
     first |-> FALSE, e |-> 0, log |-> <<>>, noadv |-> FALSE]

\* k: "none", "ok" (v returned) or "exc" (NoMatch object exc raised).  The
\* other fields are history of the call that ended: its node, entry position
\* and lexical flag, where its matcher started (c_pos), what _parse returned
\* (raw), whether the memo table answered (hit), the comments skipped (ncom)
\* and the alternatives tried (log).
NoRet ==
    [k |-> "none", v |-> None, exc |-> 0, node |-> 0, entry |-> 0,
     lex |-> FALSE, c_pos |-> 0, raw |-> None, hit |-> FALSE, ncom |-> 0,
     log |-> <<>>]

RetOk(f, c_pos, v, raw, hit, ncom) ==
    [k |-> "ok", v |-> v, exc |-> 0, node |-> f.node, entry |-> f.entry,
     lex |-> f.lex, c_pos |-> c_pos, raw |-> raw, hit |-> hit, ncom |-> ncom,
     log |-> f.log]

RetExc(f, c_pos, e, hit, ncom) ==
    [k |-> "exc", v |-> None, exc |-> e, node |-> f.node, entry |-> f.entry,
     lex |-> f.lex, c_pos |-> c_pos, raw |-> None, hit |-> hit, ncom |-> ncom,
     log |-> f.log]

\* the entry of evals for a call that ended as r, leaving the position at
\* pos
Evaluated(r, pos) ==
    [node |-> r.node, entry |-> r.entry, lex |-> r.lex,
     com |-> in_parse_comment, ok |-> r.k = "ok", v |-> r.v, pos |-> pos,
     hit |-> r.hit]

Top == stack[Len(stack)]
Pop == SubSeq(stack, 1, Len(stack) - 1)
SetTop(f) == [stack EXCEPT ![Len(stack)] = f]
Kind(n) == IF n = 0 THEN "None" ELSE Model[n].kind

\* the top frame is at pc in a node of kind k, and the call it made (if
\* any) ended as r ("none": no call is pending)
At(pc, k, r) ==
    /\ phase = "parsing"
    /\ stack # <<>>
    /\ Top.pc = pc
    /\ Kind(Top.node) = k
    /\ ret.k = r

\* No _from_python call is followed: the parser models are those of Model.
NoBuild ==
    [phase |-> "none", grammar |-> <<>>, heap |-> <<>>, rule_cache |-> <<>>,
     for_resolving |-> <<>>, cross_refs |-> 0, made |-> 0, e |-> 0,
     parser_model |-> [cross |-> FALSE, id |-> 0, rule_name |-> "", via |-> ""]]

\* No getASG / context call was made.  A call is recorded with its arguments
\* (table, length, pos), whether it raised, what it returned (val) and the
\* first_pass / second_pass calls it made, in order (log).
NoCall ==
    [op |-> "none", given |-> FALSE, table |-> <<>>, length |-> 0, pos |-> 0,
     raised |-> FALSE,
     val |-> [k |-> "None", s |-> <<>>, rule |-> "", path |-> <<>>],
     text |-> <<>>, log |-> <<>>, linecol |-> <<0, 0>>, built |-> FALSE]

\* ------------------------------------------------------- parser operations

RECURSIVE WsEnd(_, _)
\* the while loop of _skip_ws
WsEnd(inp, pos) ==
    IF pos < Len(inp) /\ inp[pos + 1] \in DEFAULT_WS
    THEN WsEnd(inp, pos + 1) ELSE pos

\* Parser._skip_ws
skip_ws(pos) == IF parser.skipws THEN WsEnd(input, pos) ELSE pos

\* ParsingExpression._parse_intro: the position it leaves
parse_intro(pos) == IF ~in_lex_rule THEN skip_ws(pos) ELSE pos

\* a _nm_raise that also takes a failure at the position of the record
nm_replaced_at_same(pos) ==
    ~in_parse_comment /\ (nm = 0 \/ pos >= nms[nm].position)

\* Parser._nm_raise: is the record replaced by a failure at pos
nm_replaced(pos) ==
    ~in_parse_comment /\ (nm = 0 \/ pos > nms[nm].position)

\* Parser._nm_raise(value, position, parser): heap and nm afterwards
nm_raise_new(value, pos) ==
    IF nm_replaced(pos)
    THEN [nms |-> Append(nms, [rule |-> value, position |-> pos, up |-> TRUE]),
          nm |-> Len(nms) + 1]
    ELSE [nms |-> nms, nm |-> nm]

\* Parser._nm_raise(nomatch): nm afterwards
nm_raise_obj(e) == IF nm_replaced(nms[e].position) THEN e ELSE nm

\* a _nm_raise that raises the NoMatch it was given
Raised_given(e, best) == e

\* Parser._nm_raise(nomatch), "raise self.nm": the object raised, given the
\* argument e and the record best that self.nm holds by then
Raised(e, best) == best

\* ParsingExpression._nm_change_rule on heap h
nm_change_rule(h, n, e, pos) ==
    IF Model[n].root /\ pos = h[e].position /\ h[e].up
    THEN [h EXCEPT ![e].rule = Model[n].rule] ELSE h

\* parse: "if parser.nm: parser.nm._up = False"
descend(h) == IF nm # 0 THEN [h EXCEPT ![nm].up = FALSE] ELSE h

RECURSIVE Closure(_)
Closure(S) ==
    LET T == S \cup UNION { { Model[n].nodes[k] : k \in DOMAIN Model[n].nodes }
                            : n \in S }
    IN  IF T = S THEN S ELSE Closure(T)

\* "node not in processed" with nothing in the set ever
in_processed_never(node, processed) == FALSE

\* clear_cache, "node in processed": set membership by __hash__ and __eq__,
\* under which StrMatch nodes with the same to_match are the same element
\* (StrMatch.__eq__, StrMatch.__hash__)
in_processed(node, processed) ==
    \E m \in processed :
        \/ m = node
        \/ /\ Kind(m) = "StrMatch" /\ Kind(node) = "StrMatch"
           /\ Model[m].to_match = Model[node].to_match

\* clear_cache stops descending below MaxDepth nested calls (the
\* interpreter's recursion limit)
MaxDepth == 8

RECURSIVE clear_cache_self(_, _, _), clear_cache_nodes(_, _, _, _)
\* node.clear_cache(processed) as call number depth of the recursion.  run:
\* the set processed, the nodes whose result_cache was reset (cleared), the
\* number of calls made, and whether the recursion went too deep (deep)
clear_cache_self(node, run, depth) ==
    IF depth > MaxDepth THEN [run EXCEPT !.deep = TRUE]
    ELSE clear_cache_nodes(Model[node].nodes, 1,
                           [run EXCEPT !.cleared = @ \cup {node},
                                       !.calls = @ + 1],
                           depth)

\* "for node in self.nodes" from its i-th node on
clear_cache_nodes(nodes, i, run, depth) ==
    IF i > Len(nodes) \/ run.deep THEN run
    ELSE IF in_processed(nodes[i], run.processed)
         THEN clear_cache_nodes(nodes, i + 1, run, depth)
         ELSE clear_cache_nodes(
                  nodes, i + 1,
                  clear_cache_self(
                      nodes[i],
                      [run EXCEPT !.processed = @ \cup {nodes[i]}],
                      depth + 1),
                  depth)

\* root.clear_cache(): processed is None and becomes a new set
clear_cache_run(root) ==
    clear_cache_self(root, [processed |-> {}, cleared |-> {}, calls |-> 0,
                            deep |-> FALSE], 1)

\* ParsingExpression.clear_cache called on node root: the memo tables
\* after it
clear_cache(c, root) ==
    [key \in { x \in DOMAIN c : x[1] \notin clear_cache_run(root).cleared }
        |-> c[key]]

\* a parse that memoizes nothing
cache_put_skipped(c, n, c_pos, entry) == c

\* self.result_cache[c_pos] = (result, new_pos)
cache_put(c, n, c_pos, entry) ==
    [key \in DOMAIN c \cup {<<n, c_pos>>} |->
        IF key = <<n, c_pos>> THEN entry ELSE c[key]]

\* ----------------------------------------------------------- the matchers

RuleOf(n) == IF Model[n].root THEN Model[n].rule ELSE ""

\* suppress as an isinstance test gives it: OrderedChoice is a subclass of
\* Sequence
Suppress_isinstance(last) == Kind(last) \in {"Sequence", "OrderedChoice"}

\* StrMatch._parse: suppress = type(parser._last_pexpression) is Sequence
Suppress(last) == Kind(last) = "Sequence"

\* StrMatch._parse: the value of the Terminal
StrMatchValue(n, frag) == Model[n].to_match

\* StrMatch._parse at c_pos, with parser._last_pexpression being last
StrMatch_parse(n, c_pos, last) ==
    LET lit == Model[n].to_match
        input_frag == Slice(input, c_pos, c_pos + Len(lit))
        match == IF Model[n].ignore_case
                 THEN Lower(input_frag) = Lower(lit)
                 ELSE input_frag = lit
    IN  [ok |-> match,
         res |-> Terminal(RuleOf(n), c_pos, StrMatchValue(n, input_frag),
                          Suppress(last)),
         pos |-> IF match THEN c_pos + Len(lit) ELSE c_pos,
         value |-> Model[n].lit]

RECURSIVE RunEnd(_, _, _)
RunEnd(inp, pos, cls) ==
    IF pos < Len(inp) /\ inp[pos + 1] \in cls
    THEN RunEnd(inp, pos + 1, cls) ELSE pos

\* RegExMatch._parse at c_pos, for a regex that is a repeated class
RegExMatch_parse(n, c_pos) ==
    LET e == RunEnd(input, c_pos, Model[n].cls)
        m == e - c_pos >= Model[n].min
    IN  [ok |-> m,
         res |-> Terminal(RuleOf(n), c_pos, Slice(input, c_pos, e), FALSE),
         pos |-> IF m THEN e ELSE c_pos,
         value |-> Model[n].name]

\* EndOfFile._parse at c_pos
EndOfFile_parse(n, c_pos) ==
    [ok |-> Len(input) = c_pos,
     res |-> Terminal("EOF", c_pos, <<>>, TRUE),
     pos |-> c_pos,
     value |-> Model[n].name]

\* self._parse(parser) of a Match node: ok, the Terminal, the position left,
\* and the name given to _nm_raise on failure
Match_parse(n, c_pos, last) ==
    CASE Model[n].kind = "StrMatch"   -> StrMatch_parse(n, c_pos, last)
      [] Model[n].kind = "RegExMatch" -> RegExMatch_parse(n, c_pos)
      [] OTHER                        -> EndOfFile_parse(n, c_pos)

\* ------------------------------------------------------------ Parser.parse

\* The parser after ParserPython.__init__ (input, position, nm and
\* line_ends are first assigned by parse()).
Init ==
    /\ parser \in Setups
    /\ input = <<>>
    /\ position = 0
    /\ line_ends = <<>>
    /\ nms = <<>>
    /\ nm = 0
    /\ in_lex_rule = FALSE
    /\ in_parse_comment = FALSE
    /\ last_pexpression = 0
    /\ cache = <<>>
    /\ parse_tree = None
    /\ stack = <<>>
    /\ ret = NoRet
    /\ phase = "init"
    /\ nparse = 0
    /\ maxfail = -1
    /\ call = NoCall
    /\ build = NoBuild
    /\ evals = <<>>

\* Parser.parse(_input) up to the call of self._parse()
Parse(inp) ==
    /\ phase \in {"init", "done", "failed"}
    /\ nparse < parser.parses
    /\ position' = 0
    /\ nm' = 0
    /\ line_ends' = <<>>
    /\ input' = inp
    /\ cache' = clear_cache(cache, parser.parser_model)
    /\ stack' = <<Frame(parser.parser_model, 0, in_lex_rule)>>
    /\ ret' = NoRet
    /\ phase' = "parsing"
    /\ nparse' = nparse + 1
    /\ maxfail' = -1
    /\ call' = NoCall
    /\ evals' = <<>>
    /\ UNCHANGED <<parser, nms, in_lex_rule, in_parse_comment,
                   last_pexpression, parse_tree, build>>

\* self.parse_tree = self._parse(); return self.parse_tree
ParseReturn ==
    /\ phase = "parsing" /\ stack = <<>> /\ ret.k = "ok"
    /\ parse_tree' = ret.v
    /\ phase' = "done"
    /\ UNCHANGED <<parser, input, position, line_ends, nms, nm, in_lex_rule,
                   in_parse_comment, last_pexpression, cache, evals, stack, ret,
                   nparse, maxfail, call, build>>

\* a parse() that forgets the tree when self._parse() raises
parse_raised_cleared(tree) == None

\* "self.parse_tree = self._parse()" when self._parse() raises: nothing is
\* assigned, parse_tree stays the tree it was
parse_raised(tree) == tree

\* self._parse() raised NoMatch: parse() is left by the exception
ParseRaise ==
    /\ phase = "parsing" /\ stack = <<>> /\ ret.k = "exc"
    /\ phase' = "failed"
    /\ parse_tree' = parse_raised(parse_tree)
    /\ UNCHANGED <<parser, input, position, line_ends, nms, nm, in_lex_rule,
                   in_parse_comment, last_pexpression, cache, evals, stack,
                   ret, nparse, maxfail, call, build>>

\* ------------------------------------------------ ParsingExpression.parse

\* parse, from its first line to the call of self._parse: whitespace, the
\* memo table, the _up flag and _last_pexpression
ExprEnter ==
    /\ phase = "parsing" /\ stack # <<>> /\ ret.k = "none"
    /\ Top.pc = "call" /\ ~IsMatch(Top.node)
    /\ LET n == Top.node
           c_pos == parse_intro(position)
       IN  IF <<n, c_pos>> \in DOMAIN cache
           THEN LET hit == cache[<<n, c_pos>>] IN
                /\ position' = hit.pos
                /\ nm' = IF hit.ok THEN nm ELSE nm_raise_obj(hit.exc)
                /\ ret' = IF hit.ok
                          THEN RetOk(Top, c_pos, hit.res, hit.res, TRUE, 0)
                          ELSE RetExc(Top, c_pos, Raised(hit.exc, nm'), TRUE, 0)
                /\ stack' = Pop
                /\ UNCHANGED <<nms, last_pexpression>>
           ELSE /\ position' = c_pos
                /\ nms' = descend(nms)
                /\ last_pexpression' = n
                /\ stack' = SetTop([Top EXCEPT !.pc = "body", !.c_pos = c_pos,
                                               !.last = last_pexpression])
                /\ UNCHANGED <<nm, ret>>
    /\ evals' = IF ret'.k = "none" THEN evals
                ELSE Append(evals, Evaluated(ret', position'))
    /\ UNCHANGED <<ctl, in_lex_rule, in_parse_comment, cache, maxfail>>

\* parse, lines 216-225: what a rule root makes of the result of _parse
RootWrap(n, c_pos, result) ==
    IF Model[n].root /\ Truthy(result) /\ result.t # "T"
    THEN IF parser.reduce_tree
         THEN LET fl == flatten(result.kids) IN
              IF Len(fl) = 1 THEN fl[1]
              ELSE NonTerminal(Model[n].rule, c_pos, List(fl))
         ELSE NonTerminal(Model[n].rule, c_pos, result)
    ELSE result

\* a parse whose except clause does not reset the position
Backtrack_kept(c_pos, pos) == pos

\* parse, "except NoMatch": the position the failure leaves
Backtrack(c_pos, pos) == c_pos

\* parse, after self._parse returned result with the position at pos: the
\* finally clause, the rule root's node, the memo table, the return
ExitOk(f, result, pos) ==
    LET r == RootWrap(f.node, f.c_pos, result) IN
    /\ position' = pos
    /\ last_pexpression' = f.last
    /\ cache' = cache_put(cache, f.node, f.c_pos,
                          [ok |-> TRUE, res |-> r, exc |-> 0, pos |-> pos])
    /\ stack' = Pop
    /\ ret' = RetOk(f, f.c_pos, r, result, FALSE, 0)
    /\ evals' = Append(evals, Evaluated(ret', position'))

\* parse, after self._parse raised e with the position at pos: backtrack,
\* memoize the failure, the finally clause, re-raise
ExitFail(f, e, pos) ==
    /\ position' = Backtrack(f.c_pos, pos)
    /\ last_pexpression' = f.last
    /\ cache' = cache_put(cache, f.node, f.c_pos,
                          [ok |-> FALSE, res |-> None, exc |-> e,
                           pos |-> f.c_pos])
    /\ stack' = Pop
    /\ ret' = RetExc(f, f.c_pos, e, FALSE, 0)
    /\ evals' = Append(evals, Evaluated(ret', position'))

\* a call of nodes[i].parse(parser) made by the top frame, updated to f
Call(f, child, pos, lex) == Append(SetTop(f), Frame(child, pos, lex))

\* ------------------------------------------------------------ Match.parse

\* a Match.parse without the early return of lines 453-454
TryComments_reentrant == ~in_lex_rule /\ parser.comments_model # 0

\* Match.parse: are comments tried after the match failed (not while
\* comments are matched: "if parser._in_parse_comment: return ...", and
\* "if not parser._in_lex_rule and parser.comments_model")
TryComments ==
    ~in_parse_comment /\ ~in_lex_rule /\ parser.comments_model # 0

\* Match.parse up to the first call of comments_model.parse, or to its end
\* when no comment is tried
MatchParse ==
    /\ phase = "parsing" /\ stack # <<>> /\ ret.k = "none"
    /\ Top.pc = "call" /\ IsMatch(Top.node)
    /\ LET n == Top.node
           c_pos == parse_intro(position)
           m == Match_parse(n, c_pos, last_pexpression)
           r == nm_raise_new(m.value, c_pos)
       IN  IF m.ok
           THEN /\ position' = m.pos
                /\ stack' = Pop
                /\ ret' = RetOk(Top, c_pos, m.res, m.res, FALSE, 0)
                /\ UNCHANGED <<nms, nm, in_parse_comment, maxfail>>
           ELSE /\ position' = c_pos
                /\ nms' = r.nms
                /\ nm' = r.nm
                /\ maxfail' = IF in_parse_comment THEN maxfail
                              ELSE Max(maxfail, c_pos)
                /\ IF TryComments
                   THEN /\ in_parse_comment' = TRUE
                        /\ stack' = Call([Top EXCEPT !.pc = "comments",
                                                     !.c_pos = c_pos,
                                                     !.e = r.nm],
                                         parser.comments_model, c_pos,
                                         in_lex_rule)
                        /\ ret' = NoRet
                   ELSE \* in a comment: _nm_raise of _parse; else
                        \* parser._nm_raise(nm) with the record just raised
                        /\ stack' = Pop
                        /\ ret' = RetExc(Top, c_pos, r.nm, FALSE, 0)
                        /\ UNCHANGED in_parse_comment
    /\ UNCHANGED <<ctl, in_lex_rule, last_pexpression, cache, evals>>

\* Match.parse: comments_model.parse returned a comment
MatchCommentOk ==
    /\ phase = "parsing" /\ stack # <<>> /\ ret.k = "ok"
    /\ Top.pc = "comments"
    /\ Len(Top.results) < MaxRep
    /\ position' = skip_ws(position)
    /\ stack' = Call([Top EXCEPT !.results = Append(@, ret.v)],
                     parser.comments_model, position', in_lex_rule)
    /\ ret' = NoRet
    /\ UNCHANGED <<ctl, nms, nm, in_lex_rule, in_parse_comment,
                   last_pexpression, cache, evals, maxfail>>

\* Match.parse: comments_model.parse raised NoMatch; the retry of the
\* match when comments were skipped, and the finally clause
MatchCommentFail ==
    /\ phase = "parsing" /\ stack # <<>> /\ ret.k = "exc"
    /\ Top.pc = "comments"
    /\ LET n == Top.node
           comments == Top.results
           m == Match_parse(n, position, last_pexpression)
           r == nm_raise_new(m.value, position)
       IN  IF comments # <<>>
           THEN IF m.ok
                THEN /\ position' = m.pos
                     /\ ret' = LET t == [m.res EXCEPT !.com =
                                    <<NonTerminal("comment", Top.c_pos,
                                                  List(comments))>>]
                               IN RetOk(Top, Top.c_pos, t, t, FALSE,
                                        Len(comments))
                     /\ UNCHANGED <<nms, nm, maxfail>>
                ELSE /\ nms' = r.nms
                     /\ nm' = r.nm
                     /\ maxfail' = Max(maxfail, position)
                     /\ ret' = RetExc(Top, Top.c_pos, r.nm, FALSE,
                                      Len(comments))
                     /\ UNCHANGED position
           ELSE /\ nm' = nm_raise_obj(Top.e)
                /\ ret' = RetExc(Top, Top.c_pos, Raised(Top.e, nm'), FALSE, 0)
                /\ UNCHANGED <<nms, position, maxfail>>
    /\ in_parse_comment' = FALSE
    /\ stack' = Pop
    /\ UNCHANGED <<ctl, in_lex_rule, last_pexpression, cache, evals>>

\* --------------------------------------------------------- Sequence._parse

SequenceStart ==
    /\ At("body", "Sequence", "none")
    /\ LET nodes == Model[Top.node].nodes IN
       IF nodes = <<>>
       THEN ExitOk(Top, List(<<>>), position)
       ELSE /\ stack' = Call([Top EXCEPT !.i = 1], nodes[1], position,
                             in_lex_rule)
            /\ UNCHANGED <<position, last_pexpression, cache, evals, ret>>
    /\ UNCHANGED <<ctl, nms, nm, in_lex_rule, in_parse_comment, maxfail>>

\* e.parse returned: "if result: results.append(result)", the next element
SequenceOk ==
    /\ At("body", "Sequence", "ok")
    /\ LET nodes == Model[Top.node].nodes
           results == IF Truthy(ret.v) THEN Append(Top.results, ret.v)
                      ELSE Top.results
       IN  IF Top.i < Len(nodes)
           THEN /\ stack' = Call([Top EXCEPT !.i = @ + 1,
                                             !.results = results],
                                 nodes[Top.i + 1], position, in_lex_rule)
                /\ ret' = NoRet
                /\ UNCHANGED <<position, last_pexpression, cache, evals>>
           ELSE ExitOk(Top, List(results), position)
    /\ UNCHANGED <<ctl, nms, nm, in_lex_rule, in_parse_comment, maxfail>>

\* e.parse raised: _nm_change_rule, re-raise
SequenceFail ==
    /\ At("body", "Sequence", "exc")
    /\ nms' = nm_change_rule(nms, Top.node, ret.exc, position)
    /\ ExitFail(Top, ret.exc, position)
    /\ UNCHANGED <<ctl, nm, in_lex_rule, in_parse_comment, maxfail>>

\* ---------------------------------------------------- OrderedChoice._parse

\* (history) one alternative tried: from where, how it ended
Tried(f, r) ==
    Append(f.log, [alt |-> f.i, from |-> r.entry, ok |-> r.k = "ok",
                   res |-> r.v, pos |-> position])

\* an OrderedChoice that does not reset the position between alternatives
ChoiceBacktrack_kept(c_pos, pos) == pos

\* OrderedChoice._parse: the position the next alternative starts from
ChoiceBacktrack(c_pos, pos) == c_pos

OrderedChoiceStart ==
    /\ At("body", "OrderedChoice", "none")
    /\ LET nodes == Model[Top.node].nodes IN
       IF nodes = <<>>
       THEN \* "raise parser.nm" with no alternative
            ExitFail(Top, nm, position)
       ELSE /\ stack' = Call([Top EXCEPT !.i = 1, !.b_pos = position],
                             nodes[1], position, in_lex_rule)
            /\ UNCHANGED <<position, last_pexpression, cache, evals, ret>>
    /\ UNCHANGED <<ctl, nms, nm, in_lex_rule, in_parse_comment, maxfail>>

\* e.parse returned: match = True, break, return result
OrderedChoiceOk ==
    /\ At("body", "OrderedChoice", "ok")
    /\ ExitOk([Top EXCEPT !.log = Tried(Top, ret)], ret.v, position)
    /\ UNCHANGED <<ctl, nms, nm, in_lex_rule, in_parse_comment, maxfail>>

\* e.parse raised: backtrack, _nm_change_rule, the next alternative or
\* "raise parser.nm"
OrderedChoiceFail ==
    /\ At("body", "OrderedChoice", "exc")
    /\ LET nodes == Model[Top.node].nodes
           f == [Top EXCEPT !.log = Tried(Top, ret)]
           pos == ChoiceBacktrack(Top.b_pos, position)
       IN  /\ nms' = nm_change_rule(nms, Top.node, ret.exc, pos)
           /\ IF Top.i < Len(nodes)
              THEN /\ position' = pos
                   /\ stack' = Call([f EXCEPT !.i = @ + 1], nodes[Top.i + 1],
                                    pos, in_lex_rule)
                   /\ ret' = NoRet
                   /\ UNCHANGED <<last_pexpression, cache, evals>>
              ELSE ExitFail(f, nm, pos)
    /\ UNCHANGED <<ctl, nm, in_lex_rule, in_parse_comment, maxfail>>

\* --------------------------------------------------------- Optional._parse

OptionalStart ==
    /\ At("body", "Optional", "none")
    /\ stack' = Call([Top EXCEPT !.b_pos = position],
                     Model[Top.node].nodes[1], position, in_lex_rule)
    /\ UNCHANGED <<ctl, position, nms, nm, in_lex_rule, in_parse_comment,
                   last_pexpression, cache, evals, ret, maxfail>>

OptionalOk ==
    /\ At("body", "Optional", "ok")
    /\ ExitOk(Top, ret.v, position)
    /\ UNCHANGED <<ctl, nms, nm, in_lex_rule, in_parse_comment, maxfail>>

\* except NoMatch: backtrack, return None
OptionalFail ==
    /\ At("body", "Optional", "exc")
    /\ ExitOk(Top, None, Top.b_pos)
    /\ UNCHANGED <<ctl, nms, nm, in_lex_rule, in_parse_comment, maxfail>>

\* ------------------------------------- ZeroOrMore._parse, OneOrMore._parse

\* one more iteration: c_pos = parser.position; self.nodes[0].parse(parser)
Iterate(f) == Call([f EXCEPT !.b_pos = position], Model[f.node].nodes[1],
                   position, in_lex_rule)

ZeroOrMoreStart ==
    /\ At("body", "ZeroOrMore", "none")
    /\ stack' = Iterate(Top)
    /\ UNCHANGED <<ctl, position, nms, nm, in_lex_rule, in_parse_comment,
                   last_pexpression, cache, evals, ret, maxfail>>

\* results.append(...), the next iteration
ZeroOrMoreOk ==
    /\ At("body", "ZeroOrMore", "ok")
    /\ Len(Top.results) < MaxRep
    /\ stack' = Iterate([Top EXCEPT !.results = Append(@, ret.v),
                                     !.noadv = @ \/ position = Top.b_pos])
    /\ ret' = NoRet
    /\ UNCHANGED <<position, last_pexpression, cache, evals>>
    /\ UNCHANGED <<ctl, nms, nm, in_lex_rule, in_parse_comment, maxfail>>

\* except NoMatch: backtrack, break, return results
ZeroOrMoreFail ==
    /\ At("body", "ZeroOrMore", "exc")
    /\ ExitOk(Top, List(Top.results), Top.b_pos)
    /\ UNCHANGED <<ctl, nms, nm, in_lex_rule, in_parse_comment, maxfail>>

OneOrMoreStart ==
    /\ At("body", "OneOrMore", "none")
    /\ stack' = Iterate(Top)
    /\ UNCHANGED <<ctl, position, nms, nm, in_lex_rule, in_parse_comment,
                   last_pexpression, cache, evals, ret, maxfail>>

\* results.append(...), first = True, the next iteration
OneOrMoreOk ==
    /\ At("body", "OneOrMore", "ok")
    /\ Len(Top.results) < MaxRep
    /\ stack' = Iterate([Top EXCEPT !.results = Append(@, ret.v), !.first = TRUE,
                                     !.noadv = @ \/ position = Top.b_pos])
    /\ ret' = NoRet
    /\ UNCHANGED <<position, last_pexpression, cache, evals>>
    /\ UNCHANGED <<ctl, nms, nm, in_lex_rule, in_parse_comment, maxfail>>

\* except NoMatch: backtrack; "if not first: raise"; break, return results
OneOrMoreFail ==
    /\ At("body", "OneOrMore", "exc")
    /\ IF ~Top.first
       THEN ExitFail(Top, ret.exc, Top.b_pos)
       ELSE ExitOk(Top, List(Top.results), Top.b_pos)
    /\ UNCHANGED <<ctl, nms, nm, in_lex_rule, in_parse_comment, maxfail>>

\* ---------------------------------------- And._parse, Not._parse, Empty

\* a predicate that leaves the position where its nodes left it
predicate_end_kept(c_pos, pos) == pos

\* And._parse, Not._parse: "parser.position = c_pos", with the position
\* being pos
predicate_end(c_pos, pos) == c_pos

AndStart ==
    /\ At("body", "And", "none")
    /\ LET nodes == Model[Top.node].nodes IN
       IF nodes = <<>>
       THEN ExitOk(Top, None, position)
       ELSE /\ stack' = Call([Top EXCEPT !.i = 1, !.b_pos = position],
                             nodes[1], position, in_lex_rule)
            /\ UNCHANGED <<position, last_pexpression, cache, evals, ret>>
    /\ UNCHANGED <<ctl, nms, nm, in_lex_rule, in_parse_comment, maxfail>>

\* e.parse returned: the next node, or parser.position = c_pos and None
AndOk ==
    /\ At("body", "And", "ok")
    /\ LET nodes == Model[Top.node].nodes IN
       IF Top.i < Len(nodes)
       THEN /\ stack' = Call([Top EXCEPT !.i = @ + 1], nodes[Top.i + 1],
                             position, in_lex_rule)
            /\ ret' = NoRet
            /\ UNCHANGED <<position, last_pexpression, cache, evals>>
       ELSE ExitOk(Top, None, predicate_end(Top.b_pos, position))
    /\ UNCHANGED <<ctl, nms, nm, in_lex_rule, in_parse_comment, maxfail>>

\* except NoMatch: parser.position = c_pos; raise
AndFail ==
    /\ At("body", "And", "exc")
    /\ ExitFail(Top, ret.exc, Top.b_pos)
    /\ UNCHANGED <<ctl, nms, nm, in_lex_rule, in_parse_comment, maxfail>>

NotStart ==
    /\ At("body", "Not", "none")
    /\ LET nodes == Model[Top.node].nodes
           r == nm_raise_new(Model[Top.node].name, position)
       IN  IF nodes = <<>>
           THEN /\ nms' = r.nms
                /\ nm' = r.nm
                /\ maxfail' = Max(maxfail, position)
                /\ ExitFail(Top, r.nm, position)
           ELSE /\ stack' = Call([Top EXCEPT !.i = 1, !.b_pos = position],
                                 nodes[1], position, in_lex_rule)
                /\ UNCHANGED <<position, last_pexpression, cache, evals, ret,
                               nms, nm, maxfail>>
    /\ UNCHANGED <<ctl, in_lex_rule, in_parse_comment>>

\* e.parse returned: the next node, or parser.position = c_pos and
\* parser._nm_raise(self.name, c_pos, parser)
NotOk ==
    /\ At("body", "Not", "ok")
    /\ LET nodes == Model[Top.node].nodes
           r == nm_raise_new(Model[Top.node].name, Top.b_pos)
       IN  IF Top.i < Len(nodes)
           THEN /\ stack' = Call([Top EXCEPT !.i = @ + 1], nodes[Top.i + 1],
                                 position, in_lex_rule)
                /\ ret' = NoRet
                /\ UNCHANGED <<position, last_pexpression, cache, evals, nms,
                               nm, maxfail>>
           ELSE /\ nms' = r.nms
                /\ nm' = r.nm
                /\ maxfail' = IF in_parse_comment THEN maxfail
                              ELSE Max(maxfail, Top.b_pos)
                /\ ExitFail(Top, r.nm, Top.b_pos)
    /\ UNCHANGED <<ctl, in_lex_rule, in_parse_comment>>

\* except NoMatch: parser.position = c_pos; return
NotFail ==
    /\ At("body", "Not", "exc")
    /\ ExitOk(Top, None, predicate_end(Top.b_pos, position))
    /\ UNCHANGED <<ctl, nms, nm, in_lex_rule, in_parse_comment, maxfail>>

EmptyParse ==
    /\ At("body", "Empty", "none")
    /\ ExitOk(Top, None, position)
    /\ UNCHANGED <<ctl, nms, nm, in_lex_rule, in_parse_comment, maxfail>>

\* ---------------------------------------------------------- Combine._parse

\* Combine._parse: the value of the Terminal made of the flattened results
CombineValue(results) == JoinStr(results)

\* a Combine that leaves the flag set
finally_in_lex_rule_set(old_in_lex_rule) == TRUE

\* Combine._parse, "finally: parser._in_lex_rule = old_in_lex_rule"
finally_in_lex_rule(old_in_lex_rule) == old_in_lex_rule

\* old_in_lex_rule = parser._in_lex_rule; parser._in_lex_rule = True
CombineStart ==
    /\ At("body", "Combine", "none")
    /\ in_lex_rule' = TRUE
    /\ LET nodes == Model[Top.node].nodes
           f == [Top EXCEPT !.old_lex = in_lex_rule, !.b_pos = position,
                            !.i = 1]
       IN  IF nodes = <<>>
           THEN ExitOk(f, Terminal(RuleOf(Top.node), position, <<>>, FALSE),
                       position)
           ELSE /\ stack' = Call(f, nodes[1], position, TRUE)
                /\ UNCHANGED <<position, last_pexpression, cache, evals, ret>>
    /\ UNCHANGED <<ctl, nms, nm, in_parse_comment, maxfail>>

\* parse returned: results.append(...); after the last node the Terminal,
\* and the finally clause
CombineOk ==
    /\ At("body", "Combine", "ok")
    /\ LET nodes == Model[Top.node].nodes
           f == [Top EXCEPT !.results = Append(@, ret.v)]
       IN  IF Top.i < Len(nodes)
           THEN /\ stack' = Call([f EXCEPT !.i = @ + 1], nodes[Top.i + 1],
                                 position, in_lex_rule)
                /\ ret' = NoRet
                /\ UNCHANGED <<position, last_pexpression, cache, evals,
                               in_lex_rule>>
           ELSE /\ in_lex_rule' = finally_in_lex_rule(Top.old_lex)
                /\ ExitOk(f, Terminal(RuleOf(Top.node), Top.b_pos,
                                      CombineValue(flatten(f.results)), FALSE),
                          position)
    /\ UNCHANGED <<ctl, nms, nm, in_parse_comment, maxfail>>

\* except NoMatch: backtrack, raise, and the finally clause
CombineFail ==
    /\ At("body", "Combine", "exc")
    /\ in_lex_rule' = finally_in_lex_rule(Top.old_lex)
    /\ ExitFail(Top, ret.exc, Top.b_pos)
    /\ UNCHANGED <<ctl, nms, nm, in_parse_comment, maxfail>>

\* ------------------------------------------- parsing without the memo tables

\* The same code with lines 174-187, 204 and 228 of parse taken out,
\* evaluated in one step: what X.parse gives at pos under the flags
\* _in_lex_rule (lex), _in_parse_comment (com) and _last_pexpression (last).
\* ok: returned res; else NoMatch was raised; pos: the position it leaves;
\* loop: a repetition went past MaxRep results.
RefOk(res, pos) == [ok |-> TRUE, res |-> res, pos |-> pos, loop |-> FALSE]
RefFail(pos) == [ok |-> FALSE, res |-> None, pos |-> pos, loop |-> FALSE]
RefLoop(pos) == [ok |-> FALSE, res |-> None, pos |-> pos, loop |-> TRUE]

RECURSIVE parse_ref(_, _, _, _, _)

RECURSIVE nodes_ref(_, _, _, _, _, _, _, _)
\* "for e in self.nodes: e.parse(parser)" from node i on, collecting every
\* result (all) or the true ones
nodes_ref(nodes, i, pos, results, lex, com, last, all) ==
    IF i > Len(nodes) THEN RefOk(List(results), pos)
    ELSE LET r == parse_ref(nodes[i], pos, lex, com, last) IN
         IF ~r.ok THEN r
         ELSE nodes_ref(nodes, i + 1, r.pos,
                        IF all \/ Truthy(r.res) THEN Append(results, r.res)
                        ELSE results,
                        lex, com, last, all)

RECURSIVE choice_ref(_, _, _, _, _)
\* the loop of OrderedChoice._parse from alternative i on
choice_ref(n, i, c_pos, lex, com) ==
    IF i > Len(Model[n].nodes) THEN RefFail(c_pos)
    ELSE LET r == parse_ref(Model[n].nodes[i], c_pos, lex, com, n) IN
         IF r.ok \/ r.loop THEN r
         ELSE choice_ref(n, i + 1, ChoiceBacktrack(c_pos, r.pos), lex, com)

RECURSIVE repeat_ref(_, _, _, _, _)
\* the while loop of ZeroOrMore._parse and OneOrMore._parse
repeat_ref(n, pos, results, lex, com) ==
    LET r == parse_ref(Model[n].nodes[1], pos, lex, com, n) IN
    IF r.loop THEN r
    ELSE IF ~r.ok THEN RefOk(List(results), pos)
    ELSE IF Len(results) >= MaxRep THEN RefLoop(r.pos)
    ELSE repeat_ref(n, r.pos, Append(results, r.res), lex, com)

RECURSIVE comments_ref(_, _, _)
\* the while loop of Match.parse: the comments matched and the position left
comments_ref(pos, comments, last) ==
    LET r == parse_ref(parser.comments_model, pos, FALSE, TRUE, last) IN
    IF r.ok /\ Len(comments) < MaxRep
    THEN comments_ref(skip_ws(r.pos), Append(comments, r.res), last)
    ELSE [comments |-> comments, pos |-> r.pos, loop |-> r.ok \/ r.loop]

\* Match.parse with the matcher starting at c_pos
Match_ref(n, c_pos, lex, com, last) ==
    LET m == Match_parse(n, c_pos, last) IN
    IF m.ok THEN RefOk(m.res, m.pos)
    ELSE IF com \/ lex \/ parser.comments_model = 0 THEN RefFail(c_pos)
    ELSE LET cs == comments_ref(c_pos, <<>>, last) IN
         IF cs.loop THEN RefLoop(cs.pos)
         ELSE IF cs.comments = <<>> THEN RefFail(cs.pos)
         ELSE LET m2 == Match_parse(n, cs.pos, last) IN
              IF m2.ok
              THEN RefOk([m2.res EXCEPT !.com =
                             <<NonTerminal("comment", c_pos,
                                           List(cs.comments))>>], m2.pos)
              ELSE RefFail(cs.pos)

\* X._parse of a composite node with the matcher starting at c_pos
body_ref(n, c_pos, lex, com) ==
    LET nodes == Model[n].nodes
        k == Model[n].kind
    IN  CASE k = "Sequence" ->
                nodes_ref(nodes, 1, c_pos, <<>>, lex, com, n, FALSE)
          [] k = "OrderedChoice" -> choice_ref(n, 1, c_pos, lex, com)
          [] k = "Optional" ->
                LET r == parse_ref(nodes[1], c_pos, lex, com, n) IN
                IF r.ok \/ r.loop THEN r ELSE RefOk(None, c_pos)
          [] k = "ZeroOrMore" -> repeat_ref(n, c_pos, <<>>, lex, com)
          [] k = "OneOrMore" ->
                LET r == repeat_ref(n, c_pos, <<>>, lex, com) IN
                IF r.ok /\ r.res.kids = <<>> THEN RefFail(c_pos) ELSE r
          [] k = "And" ->
                LET r == nodes_ref(nodes, 1, c_pos, <<>>, lex, com, n, TRUE) IN
                IF r.ok THEN RefOk(None, c_pos) ELSE [r EXCEPT !.pos = c_pos]
          [] k = "Not" ->
                LET r == nodes_ref(nodes, 1, c_pos, <<>>, lex, com, n, TRUE) IN
                IF r.loop THEN r
                ELSE IF r.ok THEN RefFail(c_pos) ELSE RefOk(None, c_pos)
          [] k = "Empty" -> RefOk(None, c_pos)
          [] OTHER -> \* Combine
                LET r == nodes_ref(nodes, 1, c_pos, <<>>, TRUE, com, n, TRUE) IN
                IF r.ok
                THEN RefOk(Terminal(RuleOf(n), c_pos,
                                    CombineValue(flatten(r.res.kids)), FALSE),
                           r.pos)
                ELSE [r EXCEPT !.pos = c_pos]

parse_ref(n, pos, lex, com, last) ==
    LET c_pos == IF lex THEN pos ELSE skip_ws(pos) IN
    IF IsMatch(n) THEN Match_ref(n, c_pos, lex, com, last)
    ELSE LET r == body_ref(n, c_pos, lex, com) IN
         IF r.ok THEN RefOk(RootWrap(n, c_pos, r.res), r.pos)
         ELSE [r EXCEPT !.pos = Backtrack(c_pos, r.pos)]

\* Parser.parse(input) without the memo tables
parse_nomemo == parse_ref(parser.parser_model, 0, FALSE, FALSE, 0)

\* ------------------------------------------------------- semantic analysis

\* The values getASG handles: None, a string, or an object made by a
\* registered action (identified by the rule and the tree path of the node
\* it was made for).
ANone == [k |-> "None", s |-> <<>>, rule |-> "", path |-> <<>>]
AStr(s) == [ANone EXCEPT !.k = "str", !.s = s]
AObj(rule, path) == [ANone EXCEPT !.k = "obj", !.rule = rule, !.path = path]

\* arpeggio.utils.isstr
isstr(c) == c.k = "str"

\* SemanticAction.first_pass, the default action
first_pass(node, nodes) ==
    IF node.t = "T"
    THEN IF ~node.sup THEN AStr(StrOf(node)) ELSE ANone
    ELSE IF Len(nodes) = 1 THEN nodes[1]
    ELSE LET non_str == SelectSeq(nodes, LAMBDA c : ~isstr(c)) IN
         IF Len(non_str) >= 2 THEN AStr(StrOf(node))
         ELSE IF Len(non_str) = 1 THEN non_str[1]
         ELSE ANone

\* A registered action: whether it has a second_pass method and what its
\* first_pass gives (an object, a string, None).
Actions == [second : BOOLEAN, gives : {"obj", "str", "None"}]

\* first_pass of the registered action a, called for the node at path
action_first_pass(a, node, path) ==
    CASE a.gives = "obj" -> AObj(node.rule, path)
      [] a.gives = "str" -> AStr(<<node.rule>>)
      [] OTHER           -> ANone

\* The rule names of the grammar of parser p
Rules(p) ==
    { Model[n].rule : n \in { m \in Closure({p.parser_model}) : Model[m].root } }

\* The dictionaries given to getASG: any registered actions for any of the
\* rules
SemActionTables(p) == UNION { [D -> Actions] : D \in SUBSET Rules(p) }

\* Parser.sem_actions as __init__ leaves it; the grammars have no rule
\* with a sem attribute
sem_actions == <<>>

\* a walk that calls first_pass for a node before it walks its children
tree_walk_pre(children_calls, node_call) == node_call \o children_calls

\* tree_walk: the calls made for the children of a node come before the
\* call made for the node
tree_walk_post(children_calls, node_call) == children_calls \o node_call

\* a call of first_pass or of second_pass, as recorded in call.log
PassCall(pass, path, rule, user, nodes, val) ==
    [pass |-> pass, path |-> path, rule |-> rule, user |-> user,
     nodes |-> nodes, val |-> val]

RECURSIVE tree_walk(_, _, _)
RECURSIVE tree_walk_children(_, _, _, _)
\* tree_walk, "for n in node": the children from the i-th on
tree_walk_children(kids, i, path, table) ==
    IF i > Len(kids)
    THEN [children |-> <<>>, log |-> <<>>, for_second_pass |-> <<>>]
    ELSE LET c == tree_walk(kids[i], Append(path, i), table)
             rest == tree_walk_children(kids, i + 1, path, table)
         IN  [children |-> (IF c.val # ANone THEN <<c.val>> ELSE <<>>)
                               \o rest.children,
              log |-> c.log \o rest.log,
              for_second_pass |-> c.for_second_pass \o rest.for_second_pass]

\* getASG.tree_walk(node): the value returned, the first_pass calls made and
\* what is appended to for_second_pass
tree_walk(node, path, table) ==
    LET w == IF node.t = "N"
             THEN tree_walk_children(node.kids, 1, path, table)
             ELSE [children |-> <<>>, log |-> <<>>, for_second_pass |-> <<>>]
        user == node.rule \in DOMAIN table
        retval == IF user
                  THEN action_first_pass(table[node.rule], node, path)
                  ELSE first_pass(node, w.children)
        c == PassCall("first", path, node.rule, user, w.children, retval)
    IN  [val |-> retval,
         log |-> tree_walk_post(w.log, <<c>>),
         for_second_pass |->
             w.for_second_pass \o
             (IF user /\ table[node.rule].second THEN <<c>> ELSE <<>>)]

\* a getASG that walks whatever parse_tree holds
parse_tree_unchecked(tree) == FALSE

\* getASG: "if not self.parse_tree"
parse_tree_empty(tree) == ~Truthy(tree)

\* Parser.getASG(sem_actions): given tells whether the argument is passed.
\* The call changes nothing of the parser, so that only the first call made
\* after a parse() call (or after construction) is followed.
GetASG(given, table) ==
    /\ phase \in {"init", "done", "failed"}
    /\ call.op = "none"
    /\ given \/ table = <<>>
    /\ LET sa == IF given THEN table ELSE sem_actions
           w == tree_walk(parse_tree, <<>>, sa)
           this == [NoCall EXCEPT !.op = "getASG", !.given = given,
                                  !.table = table]
       IN  call' =
             IF parse_tree_empty(parse_tree) \/ (~given /\ DOMAIN sa = {})
             THEN [this EXCEPT !.raised = TRUE]
             ELSE [this EXCEPT
                     !.val = w.val,
                     !.log = w.log \o
                             [k \in 1..Len(w.for_second_pass) |->
                                [w.for_second_pass[k] EXCEPT
                                    !.pass = "second", !.nodes = <<>>]]]
    /\ UNCHANGED <<parser, input, position, line_ends, nms, nm, in_lex_rule,
                   in_parse_comment, last_pexpression, cache, evals, parse_tree,
                   stack, ret, phase, nparse, maxfail, build>>


\* --------------------------------------------------------------- context

\* an argument of context() that is left at its default, None
NotGiven == -1

\* the number of characters context() shows on each side
context_width == 10

\* python "not x" / "if x" for an argument that is None or an int
Falsy(x) == x = NotGiven \/ x = 0

\* Parser.context(length, position): the string returned
context(length, pos) ==
    LET p == IF Falsy(pos) THEN position ELSE pos
        before == Slice(input, Max(p - context_width, 0), p)
    IN  IF ~Falsy(length)
        THEN before \o <<"*">> \o Slice(input, p, p + length) \o <<"*">>
                    \o Slice(input, p + length, p + context_width)
        ELSE before \o <<"*">> \o Slice(input, p, p + context_width)

\* a call of Parser.context after a parse() call.  The call changes nothing
\* of the parser, so that only the first call made after a parse() call is
\* followed.
Context(length, pos) ==
    /\ phase \in {"done", "failed"}
    /\ call.op = "none"
    /\ call' = [NoCall EXCEPT !.op = "context", !.length = length,
                              !.pos = pos, !.text = context(length, pos)]
    /\ UNCHANGED <<parser, input, position, line_ends, nms, nm, in_lex_rule,
                   in_parse_comment, last_pexpression, cache, evals, parse_tree,
                   stack, ret, phase, nparse, maxfail, build>>


\* -------------------------------------------------------- pos_to_linecol

RECURSIVE index(_, _, _)
\* str.index(sub, start) for a one-character sub: the offset of the first
\* occurrence at or after start, -1 for ValueError
index(str, sub, start) ==
    IF start >= Len(str) THEN -1
    ELSE IF str[start + 1] = sub THEN start
    ELSE index(str, sub, start + 1)

RECURSIVE line_ends_from(_, _)
\* pos_to_linecol, lines 917-926: line_ends appended to until index raises
line_ends_from(ends, start) ==
    LET k == index(input, "\n", start) IN
    IF k = -1 THEN ends ELSE line_ends_from(Append(ends, k), k + 1)

\* a bisect that also counts an element equal to x
bisect_right(a, x) == Cardinality({ i \in DOMAIN a : a[i] <= x })

\* bisect.bisect_left(a, x) on a sorted list a
bisect_left(a, x) == Cardinality({ i \in DOMAIN a : a[i] < x })

\* Parser.pos_to_linecol(pos) with line_ends being ends: <<line, col>>
pos_to_linecol(ends, pos) ==
    LET line == bisect_left(ends, pos)
        col == IF line > 0
               THEN LET c == pos - ends[line] IN
                    IF input[ends[line] + 1] \in {"\n", "\r"} THEN c - 1 ELSE c
               ELSE pos
    IN  <<line + 1, col + 1>>

\* a call of Parser.pos_to_linecol after a parse() call; built (history)
\* tells whether this call filled line_ends
PosToLinecol(pos) ==
    /\ phase \in {"done", "failed"}
    /\ call.op \in {"none", "pos_to_linecol"}
    /\ line_ends' = IF line_ends = <<>> THEN line_ends_from(<<>>, 0)
                    ELSE line_ends
    /\ call' = [NoCall EXCEPT !.op = "pos_to_linecol", !.pos = pos,
                              !.linecol = pos_to_linecol(line_ends', pos),
                              !.built = (line_ends = <<>>)]
    /\ UNCHANGED <<parser, input, position, nms, nm, in_lex_rule,
                   in_parse_comment, last_pexpression, cache, evals, parse_tree,
                   stack, ret, phase, nparse, maxfail, build>>


Next ==
    \/ \E inp \in Inputs(parser) : Parse(inp)
    \/ ParseReturn
    \/ ParseRaise
    \/ ExprEnter
    \/ MatchParse
    \/ MatchCommentOk
    \/ MatchCommentFail
    \/ SequenceStart
    \/ SequenceOk
    \/ SequenceFail
    \/ OrderedChoiceStart
    \/ OrderedChoiceOk
    \/ OrderedChoiceFail
    \/ OptionalStart
    \/ OptionalOk
    \/ OptionalFail
    \/ ZeroOrMoreStart
    \/ ZeroOrMoreOk
    \/ ZeroOrMoreFail
    \/ OneOrMoreStart
    \/ OneOrMoreOk
    \/ OneOrMoreFail
    \/ AndStart
    \/ AndOk
    \/ AndFail
    \/ NotStart
    \/ NotOk
    \/ NotFail
    \/ EmptyParse
    \/ CombineStart
    \/ CombineOk
    \/ CombineFail
    \/ \E given \in BOOLEAN, table \in SemActionTables(parser) :
          GetASG(given, table)
    \/ \E length \in {NotGiven} \cup 0..MaxMark,
          pos \in {NotGiven} \cup 0..Len(input) :
          Context(length, pos)
    \/ \E pos \in 0..Len(input) : PosToLinecol(pos)

Spec == Init /\ [][Next]_vars

\* ------------------------------------------------------ the grammar builder

\* Longest tuple or list that a rule function of the grammars below returns.
MaxBody == 2

\* What the rule functions of a grammar return: another rule function, a
\* string, a tuple, a list, Optional(...) or EndOfFile().
Fn(name) == [k |-> "fn", name |-> name, items |-> <<>>]
Str(s) == [k |-> "str", name |-> s, items |-> <<>>]
Tuple(items) == [k |-> "tuple", name |-> "", items |-> items]
ListOf(items) == [k |-> "list", name |-> "", items |-> items]
OptionalOf(e) == [k |-> "Optional", name |-> "", items |-> <<e>>]
EndOfFileObj == [k |-> "EndOfFile", name |-> "", items |-> <<>>]

\* The grammars: rule functions A (the language definition) and B, each
\* returning a tuple or a list of strings, rules and Optional(A); A may
\* return B itself, B may return EndOfFile().
Atoms == {Str("a"), Fn("A"), Fn("B"), OptionalOf(Fn("A"))}
Bodies ==
    LET items == UNION { [1..k -> Atoms] : k \in 1..MaxBody } IN
    { Tuple(i) : i \in items } \cup { ListOf(i) : i \in items }
Grammars == [A : Bodies \cup {Fn("B")}, B : Bodies \cup {EndOfFileObj}]

\* A reference to an expression object of the heap, or a CrossRef object.
\* via (history) is the rule function that the reference was made for.
NodeRef(id) == [cross |-> FALSE, id |-> id, rule_name |-> "", via |-> ""]
CrossRef(rule_name) ==
    [cross |-> TRUE, id |-> 0, rule_name |-> rule_name, via |-> ""]

\* ParsingExpression.__init__: a new expression object
NewNode(kind) == [kind |-> kind, nodes |-> <<>>, rule |-> "", root |-> FALSE]

\* d[key] = v
dict_put(d, key, v) ==
    [x \in DOMAIN d \cup {key} |-> IF x = key THEN v ELSE d[x]]

\* any((isinstance(x, CrossRef) for x in nodes))
any_CrossRef(nodes) == \E i \in DOMAIN nodes : nodes[i].cross

RECURSIVE curr_expr(_, _)
\* "while type(curr_expr) is types.FunctionType: curr_expr = curr_expr()"
curr_expr(expression, grammar) ==
    IF expression.k = "fn" THEN curr_expr(grammar[expression.name], grammar)
    ELSE expression

\* _from_python, up to the call of inner_from_python: made (history) counts
\* the CrossRef objects handed out
StartBuild(grammar) ==
    [phase |-> "start", grammar |-> grammar, heap |-> <<NewNode("EndOfFile")>>,
     rule_cache |-> [x \in {"EndOfFile"} |-> NodeRef(1)],
     for_resolving |-> <<>>, cross_refs |-> 0, made |-> 0, e |-> 0,
     parser_model |-> NodeRef(0)]

\* "__for_resolving.append(retval)" for the container id, if it holds a
\* CrossRef
for_resolving_put(b, id) ==
    IF any_CrossRef(b.heap[id].nodes)
    THEN [b EXCEPT !.for_resolving = Append(@, id)] ELSE b

RECURSIVE inner_from_python(_, _)
RECURSIVE inner_from_python_all(_, _)
\* [inner_from_python(e) for e in expression]
inner_from_python_all(items, b) ==
    IF items = <<>> THEN [b |-> b, nodes |-> <<>>]
    ELSE LET r == inner_from_python(Head(items), b)
             rest == inner_from_python_all(Tail(items), r.b)
         IN  [b |-> rest.b, nodes |-> <<r.retval>> \o rest.nodes]

\* inner_from_python(expression) with the locals of _from_python being b:
\* the locals afterwards and the value returned
inner_from_python(expression, b) ==
    LET id == Len(b.heap) + 1 IN
    CASE expression.k = "fn" ->
            LET rule == expression.name IN
            IF rule \in DOMAIN b.rule_cache
            THEN LET c_rule == b.rule_cache[rule] IN
                 [b |-> IF c_rule.cross
                        THEN [b EXCEPT !.cross_refs = @ + 1, !.made = @ + 1]
                        ELSE b,
                  retval |-> [c_rule EXCEPT !.via = rule]]
            ELSE LET b1 == [b EXCEPT
                              !.rule_cache = dict_put(@, rule, CrossRef(rule))]
                     r == inner_from_python(
                              curr_expr(expression, b.grammar), b1)
                     n == r.retval.id
                 IN  [b |-> [r.b EXCEPT
                               !.heap[n].rule = rule,
                               !.heap[n].root = TRUE,
                               !.rule_cache = dict_put(@, rule, r.retval)],
                      retval |-> [r.retval EXCEPT !.via = rule]]
      [] expression.k = "EndOfFile" ->
            [b |-> [b EXCEPT !.heap = Append(@, NewNode("EndOfFile"))],
             retval |-> NodeRef(id)]
      [] expression.k = "Optional" ->
            LET b1 == [b EXCEPT !.heap = Append(@, NewNode("Optional"))]
                r == inner_from_python(expression.items[1], b1)
                b2 == [r.b EXCEPT !.heap[id].nodes = Append(@, r.retval)]
            IN  [b |-> for_resolving_put(b2, id), retval |-> NodeRef(id)]
      [] expression.k \in {"list", "tuple"} ->
            LET kind == IF expression.k = "list" THEN "OrderedChoice"
                        ELSE "Sequence"
                b1 == [b EXCEPT !.heap = Append(@, NewNode(kind))]
                r == inner_from_python_all(expression.items, b1)
                b2 == [r.b EXCEPT !.heap[id].nodes = r.nodes]
            IN  [b |-> for_resolving_put(b2, id), retval |-> NodeRef(id)]
      [] OTHER -> \* str
            [b |-> [b EXCEPT !.heap = Append(@, NewNode("StrMatch"))],
             retval |-> NodeRef(id)]

\* a resolve that leaves the placeholder where it is
resolved_not(b, node) == node

\* resolve: "e.nodes[i] = __rule_cache[node.rule_name]"
resolved(b, node) == [b.rule_cache[node.rule_name] EXCEPT !.via = node.via]

\* the variables of a parser that _from_python leaves alone
parsing == <<parser, input, position, line_ends, nms, nm, in_lex_rule,
             in_parse_comment, last_pexpression, cache, evals, parse_tree, stack,
             ret, phase, nparse, maxfail, call>>

\* ParserPython.__init__ up to the call of _from_python(language_def)
InitBuild ==
    /\ parser = Parser(0, 0, TRUE, FALSE, {}, 0, 0)
    /\ input = <<>>
    /\ position = 0
    /\ line_ends = <<>>
    /\ nms = <<>>
    /\ nm = 0
    /\ in_lex_rule = FALSE
    /\ in_parse_comment = FALSE
    /\ last_pexpression = 0
    /\ cache = <<>>
    /\ parse_tree = None
    /\ stack = <<>>
    /\ ret = NoRet
    /\ phase = "init"
    /\ nparse = 0
    /\ maxfail = -1
    /\ call = NoCall
    /\ evals = <<>>
    /\ build \in { StartBuild(g) : g \in Grammars }

\* "parser_model = inner_from_python(expression)"
FromPython ==
    /\ build.phase = "start"
    /\ LET r == inner_from_python(Fn("A"), build) IN
       build' = [r.b EXCEPT !.phase = "resolve", !.parser_model = r.retval,
                            !.e = 1]
    /\ UNCHANGED parsing

\* resolve: one round of "for e in __for_resolving"
Resolve ==
    /\ build.phase = "resolve"
    /\ build.e <= Len(build.for_resolving)
    /\ LET id == build.for_resolving[build.e]
           nodes == build.heap[id].nodes
           crossrefs == { i \in DOMAIN nodes : nodes[i].cross }
       IN  build' = [build EXCEPT
                       !.cross_refs = @ - Cardinality(crossrefs),
                       !.heap[id].nodes =
                           [i \in DOMAIN nodes |->
                              IF i \in crossrefs THEN resolved(build, nodes[i])
                              ELSE nodes[i]],
                       !.e = @ + 1]
    /\ UNCHANGED parsing

\* "assert self.__cross_refs == 0; return parser_model"
FromPythonReturn ==
    /\ build.phase = "resolve"
    /\ build.e > Len(build.for_resolving)
    /\ build' = [build EXCEPT
                   !.phase = IF build.cross_refs = 0 THEN "returned"
                             ELSE "raised"]
    /\ UNCHANGED parsing

NextBuild ==
    \/ FromPython
    \/ Resolve
    \/ FromPythonReturn

SpecBuild == InitBuild /\ [][NextBuild]_vars

\* ================================================================ properties

\* where the matcher of the call that ended last started: the entry
\* position, moved over whitespace unless the call was made in a lexical rule
StartOf(r) == IF r.lex \/ ~parser.skipws THEN r.entry ELSE WsEnd(input, r.entry)

SameAsNoMemo ==
    LET r == parse_nomemo IN
    /\ r.ok = (phase = "done")
    /\ r.ok => r.res = parse_tree
    /\ r.pos = position

\* C2: parsing with the memo tables gives the outcome of parsing without
\* them: when a parse() call on a fresh parser has returned or raised, the
\* tree or the failure and the final position are those of the memo-free
\* evaluation of the same grammar on the same input.
C2_AsStated ==
    (phase \in {"done", "failed"} /\ nparse = 1) => SameAsNoMemo

\* (model validation) the same for the grammars where no node is reachable
\* both inside and outside a Combine
C2_NoSharedLexNode ==
    (phase \in {"done", "failed"} /\ nparse = 1
     /\ parser.parser_model \notin {25, 28}) => SameAsNoMemo

\* ------------------------------------------------------------------------ C3
\* a parse() call has just started: nothing of it has been evaluated yet
CallStarts ==
    /\ phase = "parsing" /\ ret.k = "none"
    /\ Len(stack) = 1 /\ Top.pc = "call"

\* C3: at the start of every parse() call the memo table of every node of
\* the grammar model and of the comments model is empty, and so every call
\* ends as a call on a freshly built parser ends (here: as the memo-free
\* evaluation ends, for a grammar on which that is what a fresh parser gives).
C3_AsStated ==
    /\ CallStarts => DOMAIN cache = {}
    /\ (phase \in {"done", "failed"} /\ parser.parser_model = 42)
           => SameAsNoMemo

\* ------------------------------------------------------------------------ C4
\* C4: a ZeroOrMore / OneOrMore loop stops when its child fails or succeeds
\* without advancing the position: no repetition makes another iteration
\* after an iteration in which the child matched and the position stayed.
C4_AsStated ==
    \A k \in 1..Len(stack) :
        Kind(stack[k].node) \in {"ZeroOrMore", "OneOrMore"} => ~stack[k].noadv

\* ------------------------------------------------------------------------ C5
\* C5: when parse() fails, the position of the record nm is the largest
\* position at which a primitive of the language model failed during the
\* call, its retries after skipped comments included.
C5_AsStated ==
    phase = "failed" => nm # 0 /\ nms[nm].position = maxfail

\* ------------------------------------------------------------------------ C6
\* one step leaves the record nm where it is or moves it forward
NmAdvances ==
    /\ nparse' # nparse => nm' = 0
    /\ nparse' = nparse =>
          /\ \A e \in 1..Len(nms) :
                e <= Len(nms') /\ nms'[e].position = nms[e].position
          /\ nm # 0 => nm' # 0
          /\ (nm # 0 /\ nm' # nm) => nms'[nm'].position > nms[nm].position

\* C6: parse() starts with nm unset; within the call nm is never unset
\* again and is replaced only by a record at a strictly larger position,
\* and no record's position ever changes (rule rewriting changes the name
\* only), so the position of nm never decreases.
C6_NmMonotonic == [][NmAdvances]_vars

\* nm has been replaced by a second record further on
C6_Witness ==
    /\ nparse = 1 /\ phase = "parsing"
    /\ nm = 2 /\ nms[2].position > nms[1].position

\* ------------------------------------------------------------------------ C7
\* C7: whatever a call raises is the record nm itself, so when parse() fails
\* the NoMatch that reaches the caller is parser.nm, whichever node raised
\* last (a primitive, a memo table replaying a failure, a Not, an
\* OrderedChoice out of alternatives).
C7_RaisedIsNm == ret.k = "exc" => nm # 0 /\ ret.exc = nm

\* parse() has failed by an OrderedChoice that tried all its alternatives
C7_Witness ==
    /\ phase = "failed" /\ ret.k = "exc" /\ ret.exc = nm
    /\ Kind(ret.node) = "OrderedChoice" /\ Len(ret.log) = 2

\* ------------------------------------------------------------------------ C8
RECURSIVE Leaves(_)
\* the Terminals of a result, left to right
Leaves(rs) ==
    IF rs = <<>> THEN <<>>
    ELSE LET r == Head(rs) IN
         (IF r.t = "T" THEN <<r>> ELSE Leaves(r.kids)) \o Leaves(Tail(rs))

RECURSIVE Gapless(_, _, _)
\* the Terminals ls cover the input from position from to position to one
\* after the other (a literal's value has the length of the text it
\* matched), and none of them carries comments
Gapless(ls, from, to) ==
    IF ls = <<>> THEN from = to
    ELSE /\ Head(ls).pos = from
         /\ Head(ls).com = <<>>
         /\ Gapless(Tail(ls), from + Len(Head(ls).val), to)

\* C8: a node evaluated inside a Combine subtree (in_lex_rule set at the
\* call), fresh or answered from its memo table, returns having skipped
\* neither whitespace nor comments: the Terminals of its result lie one
\* after the other from the entry position to the position it leaves.
C8_AsStated ==
    (ret.k = "ok" /\ ret.lex) => Gapless(Leaves(<<ret.v>>), ret.entry, position)

\* ------------------------------------------------------------------------ C9
\* C9: a Combine that matched returns one Terminal whose value is the input
\* text its subtree consumed, input[start:end].
C9_AsStated ==
    (ret.k = "ok" /\ Kind(ret.node) = "Combine") =>
        /\ ret.v.t = "T"
        /\ ret.v.val = Slice(input, ret.c_pos, position)

\* ----------------------------------------------------------------------- C10
\* the call that ended last is an OrderedChoice that ran its _parse
ChoiceEnded == ret.k # "none" /\ Kind(ret.node) = "OrderedChoice" /\ ~ret.hit

\* C10: an OrderedChoice tries its alternatives in order, each from the
\* position where its own matcher started; it stops at the first one that
\* matches, and what _parse returns and the position it leaves are that
\* alternative's result and post-position (no later alternative is
\* evaluated); it raises only after every alternative has failed.
C10_FirstMatchWins ==
    ChoiceEnded =>
        LET log == ret.log
            n == Len(log)
        IN  /\ \A k \in 1..n : log[k].alt = k /\ log[k].from = ret.c_pos
            /\ \A k \in 1..(n - 1) : ~log[k].ok
            /\ ret.k = "ok" =>
                  /\ n >= 1 /\ log[n].ok
                  /\ ret.raw = log[n].res
                  /\ position = log[n].pos
            /\ ret.k = "exc" =>
                  /\ n = Len(Model[ret.node].nodes)
                  /\ \A k \in 1..n : ~log[k].ok
                  /\ position = ret.c_pos

\* an OrderedChoice returned its first alternative's result where the second
\* one would have matched as well
C10_Witness ==
    /\ ChoiceEnded /\ ret.k = "ok"
    /\ Len(ret.log) = 1 /\ position > ret.c_pos
    /\ parse_ref(Model[ret.node].nodes[2], ret.c_pos, ret.lex, FALSE,
                 ret.node).ok

\* ----------------------------------------------------------------------- C11
\* no And / Not below node n: nothing under n moves the position forward and
\* back again without a failure further on
NoPredicates(n) ==
    \A k \in Closure({n}) : Model[k].kind \notin {"And", "Not"}

\* parse() failed where the rule R of the root node was entered, and no
\* primitive inside R failed further on
FailedAtEntryOfRoot ==
    /\ phase = "failed" /\ nm # 0
    /\ ret.node = parser.parser_model /\ Model[ret.node].root
    /\ ret.entry = ret.c_pos
    /\ nms[nm].position = ret.c_pos
    /\ maxfail = ret.c_pos
    /\ NoPredicates(ret.node)

\* C11: when parse() fails with the failure at the entry position of the
\* rule R and nothing inside R advanced past it, the expected name reported
\* is R, whatever kind of expression the rule root is.
C11_AsStated ==
    FailedAtEntryOfRoot => nms[nm].rule = Model[ret.node].rule

\* ----------------------------------------------------------------------- C12
\* C12: a failure carries the name of a rule only if its position is that
\* rule's entry position: when a rule root raises a failure that is named
\* after the rule, the failure lies where the rule's matcher started (so
\* S <- 'a' 'b' on "ac" reports 'b' at offset 1, not S).
C12_AsStated ==
    (/\ ret.k = "exc" /\ ~ret.hit
     /\ ~IsMatch(ret.node) /\ Model[ret.node].root
     /\ nms[ret.exc].rule = Model[ret.node].rule)
        => nms[ret.exc].position = ret.c_pos

\* ----------------------------------------------------------------------- C13
\* the number of leading 'a' of the input
LeadingAs == RunEnd(input, 0, {"a"})

\* C13: for G <- S EOF with S <- 'a'+ and an input of n >= 1 'a' followed by
\* another character, S returns n terminals and leaves the position at
\* offset n, and parse() fails with the failure at offset n and the expected
\* name EOF.
C13_AsStated ==
    (parser.parser_model = 9 /\ LeadingAs >= 1 /\ LeadingAs < Len(input)) =>
        /\ (ret.k = "ok" /\ ret.node = 8) =>
              Len(ret.v.kids) = LeadingAs /\ position = LeadingAs
        /\ phase # "done"
        /\ phase = "failed" =>
              nms[nm].position = LeadingAs /\ nms[nm].rule = "EOF"

\* ----------------------------------------------------------------------- C14
\* the frames of Match.parse that are matching comments
CommentFrames == { k \in 1..Len(stack) : stack[k].pc = "comments" }

\* the comments of the input at position pos, matched without memo tables
CommentsAt(pos) == comments_ref(pos, <<>>, last_pexpression)

\* a primitive of the language model has returned or raised
MatchEnded(k) == ret.k = k /\ IsMatch(ret.node) /\ ~in_parse_comment

\* C14: when a primitive fails outside a lexical rule and comments match
\* there, it is retried after them; when the retry succeeds the position is
\* after the primitive and the Terminal carries one 'comment' NonTerminal
\* with all the comments matched, in order (on a fresh parser: the comments
\* the input holds at that place); a Terminal matched at once carries none;
\* when no comment matches, the failure propagates from where the primitive
\* started; and comments are never tried while comments are matched, nor in
\* a lexical rule.
C14_CommentRetry ==
    /\ (MatchEnded("ok") /\ ret.ncom > 0) =>
          /\ ~ret.lex /\ parser.comments_model # 0
          /\ Len(ret.v.com) = 1
          /\ LET c == ret.v.com[1]
                 m == Match_parse(ret.node, ret.v.pos, last_pexpression)
             IN  /\ c.t = "N" /\ c.rule = "comment" /\ c.pos = ret.c_pos
                 /\ Len(c.kids) = ret.ncom
                 /\ \A k \in 1..Len(c.kids) :
                       /\ c.kids[k].pos >= ret.c_pos
                       /\ c.kids[k].pos < ret.v.pos
                       /\ k > 1 => c.kids[k - 1].pos < c.kids[k].pos
                 /\ m.ok /\ position = m.pos
                 /\ nparse = 1 =>
                       /\ c.kids = CommentsAt(ret.c_pos).comments
                       /\ ret.v.pos = CommentsAt(ret.c_pos).pos
    /\ (MatchEnded("ok") /\ ret.ncom = 0) =>
          ret.v.com = <<>> /\ ret.v.pos = ret.c_pos
    /\ (MatchEnded("exc") /\ ret.ncom = 0) =>
          /\ position = ret.c_pos
          /\ ret.exc = nm
          /\ (nparse = 1 /\ ~ret.lex /\ parser.comments_model # 0) =>
                CommentsAt(ret.c_pos).comments = <<>>
    /\ Cardinality(CommentFrames) <= 1
    /\ in_parse_comment <=> CommentFrames # {}
    /\ \A k \in CommentFrames : ~stack[k].lex /\ IsMatch(stack[k].node)

\* a primitive matched on its retry after two comments
C14_Witness ==
    /\ MatchEnded("ok") /\ ret.ncom = 2
    /\ Len(ret.v.com[1].kids) = 2
    /\ position > ret.v.pos

\* ----------------------------------------------------------------------- C15
\* the first_pass calls and the second_pass calls of the getASG call made
\* last, in the order in which they were made
FirstPasses == SelectSeq(call.log, LAMBDA c : c.pass = "first")
SecondPasses == SelectSeq(call.log, LAMBDA c : c.pass = "second")

RECURSIVE Paths(_, _)
\* the paths of the nodes of the tree at path
Paths(node, path) ==
    {path} \cup
    (IF node.t = "N"
     THEN UNION { Paths(node.kids[i], Append(path, i)) : i \in DOMAIN node.kids }
     ELSE {})

\* p is a proper prefix of q: the node at p is an ancestor of the node at q
Ancestor(p, q) == Len(p) < Len(q) /\ SubSeq(q, 1, Len(p)) = p

\* the node at p comes before the node at q in post-order: it is a
\* descendant of it, or it lies in a subtree to the left of it
PostOrderBefore(p, q) ==
    \/ Ancestor(q, p)
    \/ \E i \in 1..Min(Len(p), Len(q)) :
          SubSeq(p, 1, i - 1) = SubSeq(q, 1, i - 1) /\ p[i] < q[i]

\* what getASG passes to second_pass for the first_pass call c
Requested(c) == [c EXCEPT !.pass = "second", !.nodes = <<>>]

\* C15: a getASG call that walks the tree calls first_pass once for every
\* node of the parse tree, in post-order (children left to right, then the
\* parent); all second_pass calls come after the last first_pass call, one
\* for each node whose action has a second_pass, with that node's first-pass
\* result, in the order in which the first_pass calls of those nodes
\* completed; the value returned is the first-pass result of the root.
C15_WalkerOrdering ==
    (call.op = "getASG" /\ ~call.raised) =>
        /\ { FirstPasses[i].path : i \in DOMAIN FirstPasses }
               = Paths(parse_tree, <<>>)
        /\ \A i, j \in DOMAIN FirstPasses :
              i < j => PostOrderBefore(FirstPasses[i].path, FirstPasses[j].path)
        /\ call.log = FirstPasses \o SecondPasses
        /\ SecondPasses =
              LET asked == SelectSeq(FirstPasses,
                               LAMBDA c : /\ c.rule \in DOMAIN call.table
                                          /\ call.table[c.rule].second)
              IN  [k \in DOMAIN asked |-> Requested(asked[k])]
        /\ call.val = FirstPasses[Len(FirstPasses)].val
        /\ FirstPasses[Len(FirstPasses)].path = <<>>

\* a getASG call on a tree three levels deep made two second_pass calls
C15_Witness ==
    /\ call.op = "getASG" /\ ~call.raised
    /\ Len(SecondPasses) >= 2
    /\ \E i \in DOMAIN FirstPasses : Len(FirstPasses[i].path) = 2

\* ----------------------------------------------------------------------- C16
RECURSIVE NodeAt(_, _)
\* the node of the tree that path leads to
NodeAt(node, path) ==
    IF path = <<>> THEN node ELSE NodeAt(node.kids[Head(path)], Tail(path))

RECURSIVE Concatenated(_)
RECURSIVE ConcatenatedAll(_)
\* the values of the terminals of a tree that are not suppressed, one after
\* the other
Concatenated(node) ==
    IF node.t = "T" THEN (IF node.sup THEN <<>> ELSE node.val)
    ELSE ConcatenatedAll(node.kids)
ConcatenatedAll(items) ==
    IF items = <<>> THEN <<>>
    ELSE Concatenated(Head(items)) \o ConcatenatedAll(Tail(items))

\* what the default action is said to return for node with child results cs
DefaultAsStated(node, cs) ==
    IF node.t = "T"
    THEN IF node.sup THEN ANone ELSE AStr(node.val)
    ELSE LET non_str == SelectSeq(cs, LAMBDA c : c.k # "str") IN
         IF Len(cs) = 1 THEN cs[1]
         ELSE IF Len(non_str) = 1 THEN non_str[1]
         ELSE AStr(Concatenated(node))

\* C16 as stated: every call of the default action returns, for a Terminal,
\* its string value or None when suppress is set, and for a NonTerminal the
\* single child result, else the only non-string child result, else (zero or
\* at least two non-string results) the concatenated string form of the
\* node; and with no registered actions getASG returns the concatenation of
\* the values of the terminals that are not suppressed.
C16_AsStated ==
    (call.op = "getASG" /\ ~call.raised) =>
        /\ \A i \in DOMAIN FirstPasses :
              LET c == FirstPasses[i] IN
              ~c.user =>
                  c.val = DefaultAsStated(NodeAt(parse_tree, c.path), c.nodes)
        /\ DOMAIN call.table = {} =>
              call.val = AStr(Concatenated(parse_tree))

\* ----------------------------------------------------------------------- C17
\* the call that ended last was made on a rule root other than a Match, its
\* _parse matched and returned a result that is not empty
RootMatched ==
    /\ ret.k = "ok" /\ ~ret.hit
    /\ ~IsMatch(ret.node) /\ Model[ret.node].root
    /\ Truthy(ret.raw)

\* the parse-tree nodes a result consists of: the result itself when it is a
\* node, the nodes of the (nested) lists otherwise
NodesOf(result) ==
    IF result.t = "L" THEN flatten(result.kids) ELSE <<result>>

\* C17 as stated: with reduce_tree, a rule root whose result consists of
\* exactly one node (a Terminal or the NonTerminal of an inner rule) returns
\* that node unchanged, and one whose result has two or more children returns
\* a NonTerminal of its own rule holding them; without reduce_tree a rule
\* root wraps every result that is not a Terminal in a NonTerminal of its
\* own rule.
C17_AsStated ==
    RootMatched =>
        IF parser.reduce_tree
        THEN /\ Len(NodesOf(ret.raw)) = 1 => ret.v = NodesOf(ret.raw)[1]
             /\ Len(NodesOf(ret.raw)) >= 2 =>
                   /\ ret.v.t = "N"
                   /\ ret.v.rule = Model[ret.node].rule
                   /\ ret.v.kids = NodesOf(ret.raw)
        ELSE ret.raw.t # "T" =>
                   /\ ret.v.t = "N"
                   /\ ret.v.rule = Model[ret.node].rule
                   /\ ret.v.kids = NodesOf(ret.raw)

\* ----------------------------------------------------------------------- C18
RECURSIVE Reachable(_)
\* the expression objects reached from the objects S through nodes lists
Reachable(S) ==
    LET T == S \cup (UNION { { build.heap[n].nodes[i].id :
                                   i \in DOMAIN build.heap[n].nodes } :
                                 n \in S } \ {0})
    IN  IF T = S THEN S ELSE Reachable(T)

\* C18: after _from_python returned, the count of outstanding placeholders is
\* zero, no CrossRef is reached from the root through nodes lists, and every
\* reference that was made for a rule function (the root and every entry of
\* a nodes list, whether the rule was built before, was being built, or was
\* built by that reference) is the one object that __rule_cache holds for
\* the rule, which carries the rule name and the root flag.
C18_CrossRefsResolved ==
    build.phase = "returned" =>
        /\ build.cross_refs = 0
        /\ \A n \in Reachable({build.parser_model.id}) :
              \A i \in DOMAIN build.heap[n].nodes :
                 ~build.heap[n].nodes[i].cross
        /\ \A n \in DOMAIN build.heap :
              \A i \in DOMAIN build.heap[n].nodes :
                 LET r == build.heap[n].nodes[i] IN
                 r.via # "" =>
                    /\ ~r.cross
                    /\ r.id = build.rule_cache[r.via].id
                    /\ build.heap[r.id].rule = r.via
                    /\ build.heap[r.id].root
        /\ build.parser_model.id = build.rule_cache["A"].id
        /\ build.heap[build.parser_model.id].rule = "A"
        /\ build.heap[build.parser_model.id].root

\* _from_python returned after it handed out CrossRef objects to two
\* containers; rule B was referenced while it was built (by itself), by the
\* reference that built it and once more after it was built
C18_Witness ==
    /\ build.phase = "returned"
    /\ build.made >= 2
    /\ Len(build.for_resolving) >= 2
    /\ "B" \in DOMAIN build.rule_cache
    /\ LET B == build.rule_cache["B"].id IN
       /\ \E i \in DOMAIN build.heap[B].nodes : build.heap[B].nodes[i].via = "B"
       /\ \E n \in DOMAIN build.heap \ {B} :
             \E i, j \in DOMAIN build.heap[n].nodes :
                /\ i < j
                /\ build.heap[n].nodes[i].via = "B"
                /\ build.heap[n].nodes[j].via = "B"

\* ----------------------------------------------------------------------- C19
\* C19: a getASG call made on a parser on which parse() has not been called
\* raises, and calls neither first_pass nor second_pass of any action.
C19_RaisesBeforeParse ==
    (call.op = "getASG" /\ nparse = 0) => call.raised /\ call.log = <<>>

\* getASG was called with registered actions before any parse() call
C19_Witness ==
    /\ call.op = "getASG" /\ nparse = 0
    /\ call.given /\ DOMAIN call.table # {}
    /\ call.raised

\* ----------------------------------------------------------------------- C20
\* what context(position=p), or context(length=n, position=p), is said to
\* return
ContextAsStated(n, p) ==
    LET before == Slice(input, Max(p - context_width, 0), p) IN
    IF n = NotGiven
    THEN before \o <<"*">> \o Slice(input, p, p + context_width)
    ELSE before \o <<"*">> \o Slice(input, p, p + n) \o <<"*">>
                \o Slice(input, p + n, p + context_width)

\* C20 as stated: for every p in 0..len(input), whatever the current
\* position is, context(position=p) returns the up to ten characters before
\* p, a '*', and the up to ten characters from p on; with length=n (n >= 1)
\* the n characters at p stand between two '*'.
C20_AsStated ==
    (call.op = "context" /\ call.pos # NotGiven /\ call.length # 0) =>
        call.text = ContextAsStated(call.length, call.pos)

\* ----------------------------------------------------------------------- C21
\* the offsets of the newline characters of the input strictly below pos
NewlinesBelow(pos) == { k \in 0..(pos - 1) : input[k + 1] = "\n" }

\* the largest element of a non-empty set of numbers
Last(S) == CHOOSE k \in S : \A j \in S : j <= k

\* C21: every pos_to_linecol(pos) call with pos in 0..len(input), whether it
\* is the call that builds line_ends or a later one, returns line = 1 + the
\* number of newlines strictly below pos, and col = pos + 1 on the first
\* line, otherwise pos minus the offset of the last newline strictly below
\* pos.
C21_LineColReference ==
    call.op = "pos_to_linecol" =>
        /\ call.linecol[1] = 1 + Cardinality(NewlinesBelow(call.pos))
        /\ call.linecol[2] =
              IF NewlinesBelow(call.pos) = {} THEN call.pos + 1
              ELSE call.pos - Last(NewlinesBelow(call.pos))

\* a call answered from the line_ends of an earlier call, for a position
\* that is a newline on the third line
C21_Witness ==
    /\ call.op = "pos_to_linecol" /\ ~call.built
    /\ call.linecol[1] = 3
    /\ call.pos < Len(input) /\ input[call.pos + 1] = "\n"

\* ----------------------------------------------------------------------- C22
\* the evaluations a and b are of the same node at the same position with
\* the same flags
SameCall(a, b) ==
    /\ a.node = b.node /\ a.entry = b.entry
    /\ a.lex = b.lex /\ a.com = b.com

\* C22: within one parse() call, when an evaluation of a non-primitive node
\* E at position p ends and E was evaluated at p with the same flags before,
\* the evaluation was answered from the memo table of E (no child of E was
\* evaluated) and it ended as the earlier one: the same tree or a failure
\* again, and the same position afterwards.
C22_MemoEquivalence ==
    \A j \in DOMAIN evals : \A i \in 1..(j - 1) :
        SameCall(evals[i], evals[j]) =>
            /\ evals[j].hit
            /\ evals[j].ok = evals[i].ok
            /\ evals[j].v = evals[i].v
            /\ evals[j].pos = evals[i].pos

\* a rule that matched two characters after leading whitespace has been
\* evaluated a second time at the same position with the same flags
C22_Witness ==
    \E j \in DOMAIN evals : \E i \in 1..(j - 1) :
        /\ SameCall(evals[i], evals[j])
        /\ evals[j].ok /\ evals[j].pos >= evals[j].entry + 2

\* ----------------------------------------------------------------------- C23
\* where the matcher (_parse) of the call that ended as r was entered: for a
\* Match that succeeded, where the _parse that matched started (after the
\* comments, if it is the retry), else the position after the whitespace
MatcherEntry(r) ==
    IF IsMatch(r.node) /\ r.k = "ok" THEN r.v.pos ELSE r.c_pos

RECURSIVE TextLen(_)
\* the number of characters of the Terminals ls
TextLen(ls) == IF ls = <<>> THEN 0 ELSE Len(Head(ls).val) + TextLen(Tail(ls))

\* the result v spans nothing of the input: its Terminals have no characters
\* and no comments were skipped before any of them
ZeroLength(v) ==
    /\ TextLen(Leaves(<<v>>)) = 0
    /\ \A i \in DOMAIN Leaves(<<v>>) : Leaves(<<v>>)[i].com = <<>>

\* C23: after every successful evaluation of a node the position is at or
\* after the position at which the node's matcher was entered; it is that
\* position for And, Not, Empty, an Optional whose child did not match and
\* a match that spans nothing; And and Not leave the position where their
\* matcher was entered also when they fail.
C23_PositionAfterMatch ==
    LET at == MatcherEntry(ret) IN
    /\ ret.k = "ok" =>
          /\ position >= at
          /\ Kind(ret.node) \in {"And", "Not", "Empty"} => position = at
          /\ (Kind(ret.node) = "Optional" /\ ret.v = None) => position = at
          /\ ZeroLength(ret.v) => position = at
    /\ (ret.k = "exc" /\ Kind(ret.node) \in {"And", "Not"}) => position = at

\* an And whose node matched a character has returned
C23_Witness ==
    /\ ret.k = "ok" /\ Kind(ret.node) = "And" /\ ~ret.hit
    /\ position = ret.c_pos
    /\ position < Len(input) /\ input[position + 1] = "a"

RECURSIVE Enclosing(_)
\* the node of the innermost frame of st whose _parse is running (0: none)
Enclosing(st) ==
    IF st = <<>> THEN 0
    ELSE IF st[Len(st)].pc = "body" THEN st[Len(st)].node
    ELSE Enclosing(SubSeq(st, 1, Len(st) - 1))

\* C24: every call that ended left _in_lex_rule as it was when the call
\* was made, nested Combines included; _in_parse_comment is set exactly
\* while a Match.parse tries comments; _last_pexpression is the node whose
\* _parse is running, so every node that ended has put back the one before
\* it; hence outside parse() calls, after a return and after a NoMatch,
\* both flags are false and _last_pexpression is None.
C24_FlagsRestored ==
    /\ ret.k # "none" => in_lex_rule = ret.lex
    /\ in_parse_comment <=> \E i \in DOMAIN stack : stack[i].pc = "comments"
    /\ last_pexpression = Enclosing(stack)
    /\ stack = <<>> =>
          /\ ~in_lex_rule /\ ~in_parse_comment /\ last_pexpression = 0

\* a Combine inside a Combine has failed and the outer one is still running
C24_Witness ==
    /\ ret.k = "exc" /\ Kind(ret.node) = "Combine" /\ ret.lex
    /\ in_lex_rule
    /\ stack # <<>> /\ Kind(Top.node) = "Combine"

\* a parse() call that skipped comments and tried a Combine has raised
C24_WitnessRaised ==
    /\ phase = "failed" /\ parser.comments_model # 0
    /\ \E i \in DOMAIN evals : Kind(evals[i].node) = "Combine"
    /\ \E i \in DOMAIN evals : evals[i].com

\* C25: a StrMatch that succeeded returns a Terminal marked for suppression
\* exactly when the innermost node whose _parse is running is a Sequence
\* itself; so after comments were skipped and the literal was tried again,
\* and after the nodes before it were parsed or taken from the memo table.
C25_SuppressInSequence ==
    (ret.k = "ok" /\ Kind(ret.node) = "StrMatch") =>
        (ret.v.sup <=> Kind(Enclosing(stack)) = "Sequence")

\* a literal of a Sequence matched when it was tried again after a comment
C25_Witness ==
    /\ ret.k = "ok" /\ Kind(ret.node) = "StrMatch"
    /\ ret.ncom > 0
    /\ ret.v.sup
    /\ stack # <<>> /\ Kind(Top.node) = "Sequence" /\ Top.pc = "body"

\* the literal of StrMatch n stands in the input at p (whatever the case of
\* the letters when n ignores it)
LiteralAt(n, p) ==
    LET frag == Slice(input, p, p + Len(Model[n].to_match)) IN
    IF Model[n].ignore_case THEN Lower(frag) = Lower(Model[n].to_match)
    ELSE frag = Model[n].to_match

\* C26: a StrMatch succeeds exactly when the literal stands in the input at
\* the position (compared without case when ignore_case is set); it then
\* moves the position by the literal's length, and the value of its
\* Terminal is the text of the input it matched, input[p : p+len(literal)].
C26_AsStated ==
    /\ (ret.k = "ok" /\ Kind(ret.node) = "StrMatch") =>
          LET p == ret.v.pos
              len == Len(Model[ret.node].to_match)
          IN  /\ LiteralAt(ret.node, p)
              /\ position = p + len
              /\ ret.v.val = Slice(input, p, p + len)
    /\ (ret.k = "exc" /\ Kind(ret.node) = "StrMatch") =>
          ~LiteralAt(ret.node, position)

\* C27: in every state, over every sequence of parse() calls on a parser,
\* the position is within the input being parsed: 0 <= position <=
\* len(input).
C27_AsStated == 0 <= position /\ position <= Len(input)

\* no step but the return of a parse() call assigns parse_tree: a call that
\* raises ends with the tree that was there when it started
KeepsTree == (phase' = "done" /\ phase = "parsing") \/ parse_tree' = parse_tree

\* after a parse() call that raised, the input, the position, nm and the
\* memo table of the root are those of that call, and a getASG call is
\* answered from the tree that was kept: it raises when there is none, and
\* else gives what the walk of that tree gives
FailedRun ==
    phase = "failed" =>
        /\ ret.k = "exc" /\ ret.node = parser.parser_model
        /\ nm # 0
        /\ position = ret.c_pos
        /\ <<ret.node, ret.c_pos>> \in DOMAIN cache
        /\ ~cache[<<ret.node, ret.c_pos>>].ok
        /\ call.op = "getASG" =>
              /\ ~Truthy(parse_tree) => call.raised
              /\ call.given /\ Truthy(parse_tree) =>
                    /\ ~call.raised
                    /\ call.val = tree_walk(parse_tree, <<>>, call.table).val

\* C28: a parse() call that raises NoMatch leaves parse_tree as it was, the
\* tree of the last call that returned or None, while input, position, nm
\* and the memo tables are those of the failed call; a getASG call that
\* follows walks that earlier tree.
C28_FailedParseKeepsTree == [][KeepsTree]_vars /\ []FailedRun

\* getASG after the second parse() call raised on "#": it walked the tree
\* of the first call, whose Terminal is not in this input
C28_Witness ==
    /\ phase = "failed" /\ nparse = 2
    /\ input = <<"#">>
    /\ Truthy(parse_tree)
    /\ \E i \in DOMAIN Leaves(<<parse_tree>>) :
          Leaves(<<parse_tree>>)[i].val = <<"b">>
    /\ call.op = "getASG" /\ ~call.raised

\* the nodes reachable from the root of the grammar through nodes lists
FromRoot == Closure({parser.parser_model})

\* C29: clear_cache called on the root ends, on grammars with rules that
\* refer to themselves too: it makes at most one call for each reachable
\* node and one more for the root, and never nests deeper than there are
\* nodes; when the parse() call that made it starts, no reachable node has a
\* memo entry.
C29_ClearCacheTotal ==
    LET run == clear_cache_run(parser.parser_model) IN
    /\ ~run.deep
    /\ run.calls <= Cardinality(FromRoot) + 1
    /\ { n \in FromRoot : ~IsMatch(n) } \subseteq run.cleared
    /\ CallStarts => \A key \in DOMAIN cache : key[1] \notin FromRoot

\* the second parse() call on the grammar A <- ('a', A) / 'b' starts: the
\* first call left memo entries and a failure in nm, and the tables of A
\* and of its Sequence are empty again
C29_Witness ==
    /\ CallStarts /\ nparse = 2
    /\ parser.parser_model \in Closure({48})
    /\ nms # <<>>
    /\ DOMAIN cache = {}

====
